---- MODULE Spec2Model ----
(***************************************************************************)
(* Digest encoding and signing of the Hibachi example SDKs                 *)
(* (src/sdk_ecdsa.ts, src/examples_hmac.ts).                               *)
(*                                                                         *)
(* TLC's integers are 32 bits wide, while the SDK works on 64-bit fields,  *)
(* millisecond time stamps and the 2^32 price multiplier.  Numbers are     *)
(* therefore kept the way bignumber.js keeps them: a sign, a sequence of   *)
(* decimal digits and a count of fractional digits.  JavaScript strings    *)
(* are sequences of one-character strings, Buffers sequences of bytes.     *)
(***************************************************************************)
EXTENDS Integers, Sequences, FiniteSets, TLC

(***************************************************************************)
(* Digit sequences, most significant digit first, in a given base.         *)
(***************************************************************************)
Front(s) == SubSeq(s, 1, Len(s) - 1)

Last(s) == s[Len(s)]

RECURSIVE StripLeadingZeros(_)
StripLeadingZeros(ds) ==
    IF Len(ds) > 1 /\ ds[1] = 0 THEN StripLeadingZeros(Tail(ds)) ELSE ds

RECURSIVE StripTrailingZeros(_)
StripTrailingZeros(ds) ==
    IF Len(ds) > 0 /\ Last(ds) = 0 THEN StripTrailingZeros(Front(ds)) ELSE ds

Zeros(n) == [i \in 1..n |-> 0]

IsZeroDigits(ds) == \A i \in 1..Len(ds) : ds[i] = 0

\* ds * k + carry in base `base` (k and carry small)
RECURSIVE MulAddSmall(_, _, _, _)
MulAddSmall(ds, k, carry, base) ==
    IF ds = <<>>
    THEN IF carry = 0 THEN <<>>
         ELSE Append(MulAddSmall(<<>>, k, carry \div base, base), carry % base)
    ELSE LET t == Last(ds) * k + carry
         IN  Append(MulAddSmall(Front(ds), k, t \div base, base), t % base)

\* a + b + carry in base `base`
RECURSIVE AddDigits(_, _, _, _)
AddDigits(a, b, carry, base) ==
    IF a = <<>> /\ b = <<>>
    THEN IF carry = 0 THEN <<>> ELSE <<carry>>
    ELSE LET x == IF a = <<>> THEN 0 ELSE Last(a)
             y == IF b = <<>> THEN 0 ELSE Last(b)
             t == x + y + carry
             a1 == IF a = <<>> THEN <<>> ELSE Front(a)
             b1 == IF b = <<>> THEN <<>> ELSE Front(b)
         IN  Append(AddDigits(a1, b1, t \div base, base), t % base)

\* a * b, schoolbook, base 10: (a * Front(b)) * 10 + a * Last(b), the two
\* partial products bound as values
RECURSIVE MulDigits(_, _)
MulDigits(a, b) ==
    IF b = <<>> THEN <<0>>
    ELSE CHOOSE sum \in
           {StripLeadingZeros(AddDigits(Append(high, 0), low, 0, 10)) :
               high \in {MulDigits(a, Front(b))}, low \in {MulAddSmall(a, Last(b), 0, 10)}} :
           TRUE

\* floor(ds / k) in base `base`, long division from the top digit
RECURSIVE DivSmallFrom(_, _, _, _)
DivSmallFrom(ds, k, rem, base) ==
    IF ds = <<>> THEN <<>>
    ELSE LET t == rem * base + ds[1]
         IN  <<t \div k>> \o DivSmallFrom(Tail(ds), k, t % k, base)

DivSmall(ds, k, base) == StripLeadingZeros(DivSmallFrom(ds, k, 0, base))

RECURSIVE DivSmallTimes(_, _, _, _)
DivSmallTimes(ds, k, n, base) ==
    IF n = 0 THEN ds ELSE DivSmallTimes(DivSmall(ds, k, base), k, n - 1, base)

\* comparison of two digit sequences without leading zeros: -1, 0, 1
RECURSIVE CmpSameLen(_, _)
CmpSameLen(a, b) ==
    IF a = <<>> THEN 0
    ELSE IF a[1] < b[1] THEN -1
    ELSE IF a[1] > b[1] THEN 1
    ELSE CmpSameLen(Tail(a), Tail(b))

CmpDigits(a, b) ==
    LET x == StripLeadingZeros(a)
        y == StripLeadingZeros(b)
    IN  IF Len(x) < Len(y) THEN -1
        ELSE IF Len(x) > Len(y) THEN 1
        ELSE CmpSameLen(x, y)

\* the digits of a small natural number
RECURSIVE NatDigits(_)
NatDigits(n) == IF n < 10 THEN <<n>> ELSE Append(NatDigits(n \div 10), n % 10)

\* base conversion of an integer, as bignumber.js toBaseOut: for each input
\* digit, multiply the accumulator by the input base and add the digit
RECURSIVE toBaseOut(_, _, _)
toBaseOut(ds, baseIn, baseOut) ==
    IF ds = <<>> THEN <<>>
    ELSE MulAddSmall(toBaseOut(Front(ds), baseIn, baseOut), baseIn, Last(ds), baseOut)

(***************************************************************************)
(* Numbers.  A BigNumber (and, for the values used here, a JavaScript      *)
(* number) is [s, c, dp]: sign s (1 or -1; 0 for NaN), c the decimal       *)
(* digits of the coefficient read as an integer, dp the number of those    *)
(* digits that follow the decimal point.  c = <<>> is NaN (s = 0) or       *)
(* +-Infinity.  Every decimal with at most 15 significant digits is read   *)
(* into a double and printed back unchanged, which is the range used.      *)
(***************************************************************************)
NaN == [s |-> 0, c |-> <<>>, dp |-> 0]

Infinity(sign) == [s |-> sign, c |-> <<>>, dp |-> 0]

isNaN(n) == n.c = <<>> /\ n.s = 0

isFinite(n) == n.c # <<>>

isZero(n) == isFinite(n) /\ IsZeroDigits(n.c)

isInteger(n) == isFinite(n) /\ n.dp = 0

isNegative(n) == n.s < 0

\* drop fractional trailing zeros and leading zeros
RECURSIVE Normalise(_)
Normalise(n) ==
    IF ~isFinite(n) THEN n
    ELSE IF n.dp > 0 /\ Last(n.c) = 0
    THEN Normalise([n EXCEPT !.c = IF Len(n.c) = 1 THEN <<0>> ELSE Front(n.c),
                             !.dp = n.dp - 1])
    ELSE [n EXCEPT !.c = StripLeadingZeros(n.c)]

Integer(sign, digits) == Normalise([s |-> sign, c |-> digits, dp |-> 0])

Decimal(sign, digits, places) == Normalise([s |-> sign, c |-> digits, dp |-> places])

\* BigNumber.shiftedBy(k): multiply by 10^k
shiftedBy(n, k) ==
    IF ~isFinite(n) THEN n
    ELSE IF k >= n.dp
    THEN Normalise([n EXCEPT !.c = n.c \o Zeros(k - n.dp), !.dp = 0])
    ELSE Normalise([n EXCEPT !.dp = n.dp - k])

\* BigNumber.multipliedBy(y)
multipliedBy(x, y) ==
    IF isNaN(x) \/ isNaN(y) THEN NaN
    ELSE IF ~isFinite(x) \/ ~isFinite(y)
    THEN IF isZero(x) \/ isZero(y) THEN NaN ELSE Infinity(x.s * y.s)
    ELSE Normalise([s |-> x.s * y.s, c |-> MulDigits(x.c, y.c), dp |-> x.dp + y.dp])

squared(x) == multipliedBy(x, x)

\* BigNumber.pow(n) for a small natural n, by repeated squaring
RECURSIVE pow(_, _)
pow(x, n) ==
    IF n = 0 THEN Integer(1, <<1>>)
    ELSE IF n % 2 = 0
    THEN squared(pow(x, n \div 2))
    ELSE multipliedBy(pow(x, n - 1), x)

\* the integer part of |n| and whether a fractional part was dropped
IntegerPart(n) ==
    IF n.dp >= Len(n.c) THEN <<0>> ELSE SubSeq(n.c, 1, Len(n.c) - n.dp)

\* BigNumber.integerValue(rm): ROUND_DOWN drops the fractional digits (towards
\* zero), ROUND_UP rounds away from zero
integerValue(n, rm) ==
    IF ~isFinite(n) \/ n.dp = 0 THEN n
    ELSE IF rm = "ROUND_DOWN" THEN [n EXCEPT !.c = IntegerPart(n), !.dp = 0]
    ELSE [n EXCEPT !.c = StripLeadingZeros(AddDigits(IntegerPart(n), <<1>>, 0, 10)),
                   !.dp = 0]

(***************************************************************************)
(* JavaScript strings and Buffers.                                         *)
(***************************************************************************)
HexChars == <<"0", "1", "2", "3", "4", "5", "6", "7",
              "8", "9", "a", "b", "c", "d", "e", "f">>

DecChars == SubSeq(HexChars, 1, 10)

IsHexChar(ch) == \E i \in 1..16 : HexChars[i] = ch

IsDecChar(ch) == \E i \in 1..10 : HexChars[i] = ch

HexVal(ch) == (CHOOSE i \in 1..16 : HexChars[i] = ch) - 1

DigitsToChars(ds) == [i \in 1..Len(ds) |-> HexChars[ds[i] + 1]]

CharsToDigits(str) == [i \in 1..Len(str) |-> HexVal(str[i])]

\* String.prototype.padStart(targetLength, padString) for a one-character pad
padStart(str, targetLength, ch) ==
    IF Len(str) >= targetLength THEN str
    ELSE [i \in 1..(targetLength - Len(str)) |-> ch] \o str

\* Buffer.from(str, 'hex'): two characters per byte; decoding stops at the
\* first pair holding a character that is no hex digit, and a trailing single
\* character is dropped
RECURSIVE ValidPairs(_)
ValidPairs(str) ==
    IF Len(str) >= 2 /\ IsHexChar(str[1]) /\ IsHexChar(str[2])
    THEN 1 + ValidPairs(SubSeq(str, 3, Len(str)))
    ELSE 0

BufferFromHex(str) ==
    [i \in 1..ValidPairs(str) |-> 16 * HexVal(str[2 * i - 1]) + HexVal(str[2 * i])]

\* Buffer.toString('hex')
BufferToHex(buf) ==
    [i \in 1..(2 * Len(buf)) |->
        IF i % 2 = 1 THEN HexChars[(buf[(i + 1) \div 2] \div 16) + 1]
        ELSE HexChars[(buf[i \div 2] % 16) + 1]]

\* Buffer.concat(list)
RECURSIVE BufferConcat(_)
BufferConcat(list) ==
    IF list = <<>> THEN <<>> ELSE list[1] \o BufferConcat(Tail(list))

(***************************************************************************)
(* BigNumber.toString(16).  bignumber.js converts a non-integer to the     *)
(* output base with DECIMAL_PLACES (20) fractional digits, rounding half   *)
(* up on the next digit, and prints no trailing zeros.                     *)
(***************************************************************************)
DECIMAL_PLACES == 20

\* floor(|n| * 16^(DECIMAL_PLACES+1)) as hex digits
ScaledHex(n) ==
    DivSmallTimes(toBaseOut(n.c, 10, 16) \o Zeros(DECIMAL_PLACES + 1), 10, n.dp, 16)

\* drop the last digit of d, rounding half up on it
RoundHalfUp(d) ==
    IF Last(d) >= 8
    THEN StripLeadingZeros(AddDigits(IF Len(d) = 1 THEN <<0>> ELSE Front(d), <<1>>, 0, 16))
    ELSE IF Len(d) = 1 THEN <<0>> ELSE Front(d)

\* |n| * 16^DECIMAL_PLACES rounded half up, as hex digits
RoundedHex(n) == RoundHalfUp(ScaledHex(n))

\* at least one digit before the DECIMAL_PLACES fractional ones
PadFraction(q) ==
    IF Len(q) <= DECIMAL_PLACES THEN Zeros(DECIMAL_PLACES + 1 - Len(q)) \o q ELSE q

FractionChars(fp) == IF fp = <<>> THEN <<>> ELSE <<".">> \o DigitsToChars(fp)

\* the digits qq printed with the point before the last DECIMAL_PLACES of them
PointChars(qq) ==
    DigitsToChars(SubSeq(qq, 1, Len(qq) - DECIMAL_PLACES))
      \o FractionChars(StripTrailingZeros(
                         SubSeq(qq, Len(qq) - DECIMAL_PLACES + 1, Len(qq))))

SignChars(n) == IF n.s < 0 /\ ~IsZeroDigits(n.c) THEN <<"-">> ELSE <<>>

toString16(n) ==
    IF isNaN(n) THEN <<"N", "a", "N">>
    ELSE IF ~isFinite(n)
    THEN (IF n.s < 0 THEN <<"-">> ELSE <<>>) \o <<"I", "n", "f", "i", "n", "i", "t", "y">>
    ELSE IF n.dp = 0
    THEN SignChars(n) \o DigitsToChars(StripLeadingZeros(toBaseOut(n.c, 10, 16)))
    ELSE SignChars(n) \o PointChars(PadFraction(RoundedHex(n)))

(***************************************************************************)
(* Reading numbers from strings.  A JavaScript object is a record; a field *)
(* that is undefined is a field the record does not have.                  *)
(***************************************************************************)
NumOfNat(n) == Integer(1, NatDigits(n))

IndexOf(str, ch) ==
    IF \E i \in 1..Len(str) : str[i] = ch
    THEN CHOOSE i \in 1..Len(str) : str[i] = ch /\ \A j \in 1..(i - 1) : str[j] # ch
    ELSE 0

AllDecChars(str) == \A i \in 1..Len(str) : IsDecChar(str[i])

\* an unsigned decimal literal: digits, optionally a point and more digits
ParseUnsigned(str, sign) ==
    LET dot == IndexOf(str, ".")
        ip  == IF dot = 0 THEN str ELSE SubSeq(str, 1, dot - 1)
        fp  == IF dot = 0 THEN <<>> ELSE SubSeq(str, dot + 1, Len(str))
    IN  IF AllDecChars(ip) /\ AllDecChars(fp) /\ Len(ip) + Len(fp) > 0
        THEN Decimal(sign, CharsToDigits(ip \o fp), Len(fp))
        ELSE IF str = <<"I", "n", "f", "i", "n", "i", "t", "y">> THEN Infinity(sign)
        ELSE NaN

ParseSigned(str) ==
    IF str # <<>> /\ str[1] = "-" THEN ParseUnsigned(Tail(str), -1)
    ELSE ParseUnsigned(str, 1)

\* Number(str): the empty string is 0, anything that is no numeric literal NaN
Number(str) == IF str = <<>> THEN Integer(1, <<0>>) ELSE ParseSigned(str)

\* new BigNumber(str): the empty string is NaN
BigNumber(str) == ParseSigned(str)

\* value.toString() of a finite number or BigNumber, in plain notation
toString10(n) ==
    IF isNaN(n) THEN <<"N", "a", "N">>
    ELSE IF ~isFinite(n)
    THEN (IF n.s < 0 THEN <<"-">> ELSE <<>>) \o <<"I", "n", "f", "i", "n", "i", "t", "y">>
    ELSE LET sign == IF n.s < 0 /\ ~isZero(n) THEN <<"-">> ELSE <<>>
             cc == IF Len(n.c) <= n.dp THEN Zeros(n.dp + 1 - Len(n.c)) \o n.c ELSE n.c
             ip == SubSeq(cc, 1, Len(cc) - n.dp)
             fp == SubSeq(cc, Len(cc) - n.dp + 1, Len(cc))
         IN  sign \o DigitsToChars(ip)
               \o (IF fp = <<>> THEN <<>> ELSE <<".">> \o DigitsToChars(fp))

(***************************************************************************)
(* HibachiEcdsaSDK: fixed-point conversion and byte encoding.              *)
(***************************************************************************)
FEE_MULTIPLIER == pow(NumOfNat(10), 8)

PRICE_MULTIPLIER == pow(NumOfNat(2), 32)

feesPercentWithDecimal(fees) == multipliedBy(fees, FEE_MULTIPLIER)

\* a variant of quantityFromReal that rounds away from zero
quantityFromReal_roundUp(quantity, underlyingDecimals) ==
    integerValue(shiftedBy(quantity, underlyingDecimals), "ROUND_UP")

quantityFromReal(quantity, underlyingDecimals) ==
    integerValue(shiftedBy(quantity, underlyingDecimals), "ROUND_DOWN")

priceFromReal(price, underlyingDecimals) ==
    LET decimals == 6 - underlyingDecimals
    IN  integerValue(multipliedBy(shiftedBy(price, decimals), PRICE_MULTIPLIER),
                     "ROUND_DOWN")

toBytes(value, numBytes) ==
    BufferFromHex(padStart(toString16(value), 2 * numBytes, "0"))

quantityWithDecimal(decimal, quantity) ==
    integerValue(shiftedBy(BigNumber(quantity), decimal), "ROUND_DOWN")

\* a string is truthy unless it is undefined or empty
HasPrice(payload) == "price" \in DOMAIN payload /\ payload.price # <<>>

SideCode(payload) ==
    IF "side" \in DOMAIN payload /\ payload.side = "ASK" THEN 0 ELSE 1

\* a variant of serializeOrder that encodes a missing price as zero
serializeOrder_zeroPrice(payload, underlyingDecimals) ==
    BufferConcat(
      << toBytes(payload.nonce, 8),
         toBytes(payload.contractId, 4),
         toBytes(quantityFromReal(Number(payload.totalQuantity), underlyingDecimals), 8),
         toBytes(NumOfNat(SideCode(payload)), 4),
         toBytes(IF HasPrice(payload)
                 THEN priceFromReal(Number(payload.price), underlyingDecimals)
                 ELSE NumOfNat(0), 8),
         toBytes(feesPercentWithDecimal(IF "maxFees" \in DOMAIN payload
                                        THEN payload.maxFees ELSE NumOfNat(0)), 8) >>)

serializeOrder(payload, underlyingDecimals) ==
    LET scaledQuantity == quantityFromReal(Number(payload.totalQuantity), underlyingDecimals)
        fees == IF "maxFees" \in DOMAIN payload THEN payload.maxFees ELSE NumOfNat(0)
        realMaxFees == feesPercentWithDecimal(fees)
    IN  BufferConcat(
          << toBytes(payload.nonce, 8),
             toBytes(payload.contractId, 4),
             toBytes(scaledQuantity, 8),
             toBytes(NumOfNat(SideCode(payload)), 4) >>
          \o (IF HasPrice(payload)
              THEN <<toBytes(priceFromReal(Number(payload.price), underlyingDecimals), 8)>>
              ELSE <<>>)
          \o << toBytes(realMaxFees, 8) >>)

serializeOrderId(orderId) == BufferConcat(<<toBytes(BigNumber(orderId), 8)>>)

(***************************************************************************)
(* HibachiSDK (the HMAC backend): its conversions take no asset precision. *)
(***************************************************************************)
Hmac_quantityFromReal(quantity) ==
    LET underlyingDecimals == 10
    IN  integerValue(shiftedBy(quantity, underlyingDecimals), "ROUND_DOWN")

Hmac_priceFromReal(price) ==
    LET decimals == -4
    IN  integerValue(multipliedBy(shiftedBy(price, decimals), PRICE_MULTIPLIER),
                     "ROUND_DOWN")

Hmac_serializeOrder(payload) ==
    LET scaledQuantity == Hmac_quantityFromReal(Number(payload.totalQuantity))
        scaledFees == Hmac_quantityFromReal(payload.maxFees)
    IN  BufferConcat(
          << toBytes(payload.nonce, 8),
             toBytes(payload.contractId, 4),
             toBytes(scaledQuantity, 8),
             toBytes(NumOfNat(SideCode(payload)), 4) >>
          \o (IF HasPrice(payload)
              THEN <<toBytes(Hmac_priceFromReal(Number(payload.price)), 8)>>
              ELSE <<>>)
          \o << toBytes(scaledFees, 8) >>)

(***************************************************************************)
(* Keys.  secp256k1 is y^2 = x^3 + 7 over a prime field; the model uses    *)
(* the same curve over the field of 13 elements, whose 7 points form a     *)
(* group of prime order generated by G.  A private key is a scalar d, its  *)
(* public key the point d*G.  Key strings are kept as tuples: the          *)
(* configured public key <<"0x", x, y>>, its compressed form               *)
(* <<"02" or "03", x>>, the configured private key <<"0x", d>>.            *)
(***************************************************************************)
Curve == [p |-> 13, b |-> 7, G |-> <<7, 5>>, n |-> 7]

ModInverse(a) == CHOOSE i \in 1..(Curve.p - 1) : (i * (a % Curve.p)) % Curve.p = 1

\* the sum of two points whose sum is not the point at infinity
PointAdd(P, Q) ==
    LET p == Curve.p
        m == IF P = Q
             THEN (3 * P[1] * P[1] * ModInverse(2 * P[2])) % p
             ELSE ((Q[2] - P[2] + p) * ModInverse(Q[1] - P[1] + p)) % p
        x == (m * m + 2 * p - P[1] - Q[1]) % p
        y == (m * (P[1] + p - x) + p - P[2]) % p
    IN  <<x, y>>

RECURSIVE ScalarMul(_)
ScalarMul(d) == IF d = 1 THEN Curve.G ELSE PointAdd(ScalarMul(d - 1), Curve.G)

\* String.prototype.substring(2) of a key string: the "0x" prefix is dropped
substring2(key) == Tail(key)

\* ec.keyFromPublic('04' + publicKey).getPublic().encodeCompressed('hex')
compressPublicKey(publicKey) ==
    <<IF publicKey[2] % 2 = 0 THEN "02" ELSE "03", publicKey[1]>>

\* curve.pointFromX(x, odd): the point with that x whose y has that parity
IsOnCurveX(x) ==
    \E y \in 0..(Curve.p - 1) : (y * y) % Curve.p = (x * x * x + Curve.b) % Curve.p

pointFromX(x, odd) ==
    LET y == CHOOSE y \in 0..(Curve.p - 1) :
                 (y * y) % Curve.p = (x * x * x + Curve.b) % Curve.p
        yy == IF (y % 2 = 1) = odd THEN y ELSE (Curve.p - y) % Curve.p
    IN  <<x, yy>>

\* ec.keyFromPublic(publicKey).getPublic().encode('hex', false).slice(2)
decompressPublicKey(publicKey) == pointFromX(publicKey[2], publicKey[1] = "03")

\* the 64 bytes that the hex string of an uncompressed key decodes to
PublicKeyBytes(point) == toBytes(NumOfNat(point[1]), 32) \o toBytes(NumOfNat(point[2]), 32)

(***************************************************************************)
(* Signing.  SHA-256 and ECDSA are kept symbolic: a signature names the    *)
(* key and the message it was made with.  Its numbers r and s and its      *)
(* recovery id are fixed by key and message (elliptic signs with a         *)
(* deterministic nonce); the model derives small stand-ins from them.      *)
(***************************************************************************)
sha256(data) == [sha256 |-> data]

Stamp(data) == IF data = <<>> THEN 0 ELSE data[Len(data)] + Len(data)

ecSign(d, msgHash) ==
    [ r |-> NumOfNat(1 + d + 7 * Stamp(msgHash.sha256)),
      s |-> NumOfNat(1 + 3 * d + Stamp(msgHash.sha256)),
      recoveryParam |-> NumOfNat((d + Stamp(msgHash.sha256)) % 4),
      signer |-> d,
      msgHash |-> msgHash ]

\* a variant of signMessageSha256 that signs without comparing the keys
signMessageSha256_unchecked(msgParams, privateKey) ==
    [threw |-> "none", signature |-> ecSign(privateKey[1], sha256(msgParams.data))]

\* signMessageSha256(msgParams, privateKey): the signature, or the error thrown
signMessageSha256(msgParams, privateKey) ==
    LET d == privateKey[1]
        accountKeyPair == ScalarMul(d)
    IN  IF compressPublicKey(accountKeyPair) # msgParams.from
        THEN [threw |-> "Public key mismatches."]
        ELSE [threw |-> "none", signature |-> ecSign(d, sha256(msgParams.data))]

\* BN.toArrayLike(Buffer, 'be', length)
toArrayLike(n, length) == toBytes(n, length)

signatureToBytes(signature) ==
    BufferConcat(<<toArrayLike(signature.r, 32), toArrayLike(signature.s, 32)>>)

(***************************************************************************)
(* State.                                                                  *)
(*   sdk    the fields of the HibachiEcdsaSDK instance                     *)
(*   clock  milliseconds since Epoch: Date.now() is Epoch + clock          *)
(*   calls  the operations invoked so far, each with its position (pc),    *)
(*          its locals and, once it ended, what it returned or threw       *)
(*   wire   the HTTP requests transmitted, in order                        *)
(*   probe  a direct application of one conversion or encoding function    *)
(*          to drawn arguments (used by SpecConv only)                     *)
(***************************************************************************)
VARIABLES sdk, clock, calls, wire, probe

vars == <<sdk, clock, calls, wire, probe>>

null == [null |-> TRUE]

\* bounds of the model
MaxCalls == 2

MaxClock == 1

Epoch == <<1, 7, 0, 0, 0, 0, 0, 0, 0, 0, 0, 0, 0>>

\* Date.now()
DateNow == Integer(1, AddDigits(Epoch, NatDigits(clock), 0, 10))

\* the private key the SDK is configured with, and the private keys of the
\* accounts whose public keys occur
PrivateKeys == {2}

AccountKeys == {2, 3}

\* strings used as arguments
Str_0_00001 == <<"0", ".", "0", "0", "0", "0", "1">>

Str_100004_0 == <<"1", "0", "0", "0", "0", "4", ".", "0">>

Str_0_045 == <<"0", ".", "0", "4", "5">>

Str_0 == <<"0">>

Str_1 == <<"1">>

Str_minus1 == <<"-", "1">>

Str_empty == <<>>

Str_abc == <<"a", "b", "c">>

Str_123 == <<"1", "2", "3">>

\* a withdrawal address: "0x" and 40 hex digits
Str_address == <<"0", "x">> \o [i \in 1..40 |-> HexChars[(i % 16) + 1]]

\* a fee with nine decimal places: 0.000000001
Str_1e_9 == <<"0", ".", "0", "0", "0", "0", "0", "0", "0", "0", "1">>

\* constructor(accountId, apiKey, publicKey, privateKey, baseUrl)
constructor(accountId, apiKey, publicKey, privateKey, baseUrl) ==
    [ accountId |-> accountId, apiKey |-> apiKey, publicKey |-> publicKey,
      privateKey |-> privateKey, baseUrl |-> baseUrl,
      lastNonce |-> null, lastOrderBody |-> null, lastOrderBuffer |-> null,
      lastSignature |-> null, lastResponse |-> null ]

\* the configured key string of a point
KeyString(point) == <<"0x">> \o point

NoProbe == [fn |-> "none"]

InitSdk ==
    \E d \in PrivateKeys, e \in AccountKeys :
        sdk = constructor(123, "apiKey", KeyString(ScalarMul(e)), <<"0x", d>>, "baseUrl")

Init ==
    /\ InitSdk
    /\ clock = 0
    /\ calls = <<>>
    /\ wire = <<>>
    /\ probe = NoProbe

KeysMatch == compressPublicKey(ScalarMul(sdk.privateKey[2])) =
             compressPublicKey(substring2(sdk.publicKey))

(***************************************************************************)
(* The signing block every operation repeats: sign the digest, then build  *)
(* the payload: hex of r and s, and the recovery id as one more byte when  *)
(* it is a number.                                                         *)
(***************************************************************************)
Sign(orderBuffer) ==
    signMessageSha256([from |-> compressPublicKey(substring2(sdk.publicKey)),
                       data |-> orderBuffer],
                      substring2(sdk.privateKey))

\* a variant of the test that keeps only its left side: 0 is falsy
HasRecoveryParam_truthy(signature) ==
    signature.recoveryParam # null /\ ~isNaN(signature.recoveryParam)
        /\ ~isZero(signature.recoveryParam)

\* ecdsaSignature.recoveryParam || ecdsaSignature.recoveryParam === 0: every
\* number but NaN passes, null does not
HasRecoveryParam(signature) ==
    signature.recoveryParam # null /\ ~isNaN(signature.recoveryParam)

SignaturePayload(ecdsaSignature) ==
    LET signatureBuffer == signatureToBytes(ecdsaSignature)
    IN  [ text |-> IF HasRecoveryParam(ecdsaSignature)
                   THEN BufferToHex(signatureBuffer)
                          \o padStart(toString16(ecdsaSignature.recoveryParam), 2, "0")
                   ELSE <<>>,
          signer |-> ecdsaSignature.signer,
          msgHash |-> ecdsaSignature.msgHash ]

EmptySignature == [text |-> <<>>, signer |-> 0, msgHash |-> null]

(***************************************************************************)
(* createOrder: synchronous; returns the signed order body or throws.      *)
(***************************************************************************)
\* the digest createOrder signs for its orderBody
createOrderBuffer(orderBody, contractId, underlyingDecimals) ==
    serializeOrder([ nonce |-> orderBody.nonce,
                     contractId |-> NumOfNat(contractId),
                     totalQuantity |-> orderBody.quantity,
                     side |-> orderBody.side,
                     price |-> orderBody.price,
                     maxFees |-> Number(orderBody.maxFeesPercent) ],
                   underlyingDecimals)

createOrder(symbol, side, orderType, quantity, price, maxFeesPercent, contractId, underlyingDecimals) ==
    /\ Len(calls) < MaxCalls
    /\ \E nonce \in {DateNow} :
       \E orderBody \in {[ accountId |-> sdk.accountId, symbol |-> symbol, side |-> side,
                            orderType |-> orderType, quantity |-> quantity,
                            maxFeesPercent |-> maxFeesPercent, price |-> price,
                            nonce |-> nonce, signature |-> EmptySignature ]} :
       \E orderBuffer \in {createOrderBuffer(orderBody, contractId, underlyingDecimals)} :
       \E signed \in {Sign(orderBuffer)} :
       \E call \in {[ op |-> "createOrder", nonce |-> nonce, digest |-> orderBuffer,
                       underlyingDecimals |-> underlyingDecimals,
                       contractId |-> contractId ]} :
          IF signed.threw # "none"
          THEN /\ sdk' = [sdk EXCEPT !.lastNonce = nonce, !.lastOrderBody = orderBody,
                                     !.lastOrderBuffer = BufferToHex(orderBuffer)]
               /\ calls' = Append(calls,
                     call @@ [ pc |-> "threw", error |-> signed.threw,
                               signature |-> EmptySignature, value |-> orderBody ])
          ELSE \E signaturePayload \in {SignaturePayload(signed.signature)} :
               \E signedBody \in {[orderBody EXCEPT !.signature = signaturePayload]} :
                  /\ sdk' = [sdk EXCEPT !.lastNonce = nonce,
                                        !.lastOrderBody = signedBody,
                                        !.lastOrderBuffer = BufferToHex(orderBuffer),
                                        !.lastSignature = signaturePayload]
                  /\ calls' = Append(calls,
                        call @@ [ pc |-> "returned", error |-> "none",
                                  signature |-> signaturePayload, value |-> signedBody ])
    /\ UNCHANGED <<clock, wire, probe>>

CreateOrder ==
    \E orderType \in {"LIMIT", "MARKET"}, price \in {Str_100004_0, Str_0, Str_empty} :
        createOrder("BTC/USDT-P", "ASK", orderType, Str_0_00001, price, Str_0_045, 2, 8)

(***************************************************************************)
(* The asynchronous operations run to their first await in one step: they  *)
(* sign the digest and, unless signing threw, transmit the request and     *)
(* wait for the response.                                                  *)
(***************************************************************************)
Request(method, url, data) == [method |-> method, url |-> url, data |-> data]

\* the signature payload of a signing step, if it has not thrown
SignedPayload(signed) ==
    IF signed.threw # "none" THEN EmptySignature ELSE SignaturePayload(signed.signature)

SignAndSend(op, args, nonce, orderBuffer, signed, sdkThrown, sdkSigned, request) ==
    IF signed.threw # "none"
    THEN /\ sdk' = sdkThrown
         /\ wire' = wire
         /\ calls' = Append(calls, [ op |-> op, pc |-> "threw", error |-> signed.threw,
                                     nonce |-> nonce, digest |-> orderBuffer,
                                     signature |-> EmptySignature, args |-> args ])
    ELSE /\ sdk' = sdkSigned
         /\ wire' = Append(wire, request)
         /\ calls' = Append(calls, [ op |-> op, pc |-> "awaiting", error |-> "none",
                                     nonce |-> nonce, digest |-> orderBuffer,
                                     signature |-> SignedPayload(signed),
                                     args |-> args ])

\* sendOrder(orderBody)
sendOrder(orderBody) ==
    /\ Len(calls) < MaxCalls
    /\ wire' = Append(wire, Request("POST", "/trade/order", orderBody))
    /\ calls' = Append(calls, [ op |-> "sendOrder", pc |-> "awaiting", error |-> "none",
                                nonce |-> orderBody.nonce, digest |-> <<>>,
                                signature |-> orderBody.signature ])
    /\ UNCHANGED <<sdk, clock, probe>>

\* cxlOrder(orderId)
cxlOrder(orderId) ==
    /\ Len(calls) < MaxCalls
    /\ \E nonce \in {DateNow} :
          \E signed \in {Sign(serializeOrderId(orderId))} :
          \E signaturePayload \in {SignedPayload(signed)} :
          SignAndSend("cxlOrder", [orderId |-> orderId], nonce, serializeOrderId(orderId), signed,
              [sdk EXCEPT !.lastNonce = nonce],
                  [sdk EXCEPT !.lastNonce = nonce, !.lastSignature = signaturePayload],
                  Request("DELETE", "/trade/order",
                          [ orderId |-> orderId, accountId |-> sdk.accountId,
                            nonce |-> nonce, signature |-> signaturePayload ]))
    /\ UNCHANGED <<clock, probe>>

\* cxlAllOrders()
cxlAllOrders ==
    /\ Len(calls) < MaxCalls
    /\ \E nonce \in {DateNow} :
       \E apiRequest \in {[accountId |-> sdk.accountId, nonce |-> nonce]} :
       \E orderBuffer \in {toBytes(nonce, 8)} :
          \E signed \in {Sign(orderBuffer)} :
          \E signaturePayload \in {SignedPayload(signed)} :
          SignAndSend("cxlAllOrders", <<>>, nonce, orderBuffer, signed,
              [sdk EXCEPT !.lastNonce = nonce, !.lastOrderBody = apiRequest,
                          !.lastOrderBuffer = BufferToHex(orderBuffer)],
                  [sdk EXCEPT !.lastNonce = nonce,
                              !.lastOrderBody =
                                  [signature |-> signaturePayload] @@ apiRequest,
                              !.lastOrderBuffer = BufferToHex(orderBuffer),
                              !.lastSignature = signaturePayload],
                  Request("DELETE", "/trade/orders",
                          [signature |-> signaturePayload] @@ apiRequest))
    /\ UNCHANGED <<clock, probe>>

\* the digest editOrder signs
editOrderBuffer(nonce, orderPayload, updatedQuantity, updatedPrice, maxFeesPercent, contractId, underlyingDecimals) ==
    serializeOrder([ nonce |-> nonce, contractId |-> NumOfNat(contractId),
                     totalQuantity |-> updatedQuantity,
                     side |-> orderPayload.side, price |-> updatedPrice,
                     maxFees |-> Number(maxFeesPercent) ],
                   underlyingDecimals)

\* editOrder(orderId, orderPayload, updatedQuantity, updatedPrice,
\*           maxFeesPercent, contractId, underlyingDecimals)
editOrder(orderId, orderPayload, updatedQuantity, updatedPrice, maxFeesPercent, contractId, underlyingDecimals) ==
    /\ Len(calls) < MaxCalls
    /\ \E nonce \in {DateNow} :
       \E orderBodyPre \in {[ orderId |-> orderId, accountId |-> sdk.accountId,
                               updatedQuantity |-> updatedQuantity,
                               updatedPrice |-> updatedPrice, nonce |-> nonce,
                               signature |-> EmptySignature,
                               maxFeesPercent |-> maxFeesPercent ]} :
       \E orderBuffer \in {editOrderBuffer(nonce, orderPayload, updatedQuantity,
                                            updatedPrice, maxFeesPercent, contractId,
                                            underlyingDecimals)} :
          \E signed \in {Sign(orderBuffer)} :
          \E signaturePayload \in {SignedPayload(signed)} :
          SignAndSend("editOrder",
              [ orderId |-> orderId, orderPayload |-> orderPayload,
                updatedQuantity |-> updatedQuantity, updatedPrice |-> updatedPrice,
                maxFeesPercent |-> maxFeesPercent, contractId |-> contractId,
                underlyingDecimals |-> underlyingDecimals ],
              nonce, orderBuffer, signed,
              [sdk EXCEPT !.lastNonce = nonce,
                          !.lastOrderBuffer = BufferToHex(orderBuffer)],
                  [sdk EXCEPT !.lastNonce = nonce,
                              !.lastOrderBuffer = BufferToHex(orderBuffer),
                              !.lastSignature = signaturePayload],
                  Request("PUT", "/trade/order",
                          [orderBodyPre EXCEPT !.signature = signaturePayload]))
    /\ UNCHANGED <<clock, probe>>

\* a variant of serializeWithdrawPayload that begins with the time of signing
serializeWithdrawPayload_nonce(payload) ==
    BufferConcat(<< toBytes(DateNow, 8),
                    toBytes(payload.assetId, 4),
                    toBytes(quantityWithDecimal(payload.decimal, payload.quantity), 8),
                    toBytes(quantityWithDecimal(payload.decimal,
                                                toString10(payload.maxFees)), 8),
                    BufferFromHex(payload.withdrawalAddress) >>)

serializeWithdrawPayload(payload) ==
    BufferConcat(<< toBytes(payload.assetId, 4),
                    toBytes(quantityWithDecimal(payload.decimal, payload.quantity), 8),
                    toBytes(quantityWithDecimal(payload.decimal,
                                                toString10(payload.maxFees)), 8),
                    BufferFromHex(payload.withdrawalAddress) >>)

\* String.prototype.slice(2) of a string of characters
slice2(str) == SubSeq(str, 3, Len(str))

\* the withdrawPayload that withdraw builds from its arguments
WithdrawPayloadOf(assetId, quantity, withdrawAddress, decimal, maxFees) ==
    [ assetId |-> NumOfNat(assetId), quantity |-> quantity,
      maxFees |-> BigNumber(maxFees),
      withdrawalAddress |-> slice2(withdrawAddress),
      decimal |-> decimal ]

\* withdraw(coin, assetId, quantity, withdrawAddress, decimal, maxFees, network)
withdraw(coin, assetId, quantity, withdrawAddress, decimal, maxFees, network) ==
    /\ Len(calls) < MaxCalls
    /\ \E nonce \in {DateNow} :
       \E withdrawPayload \in {WithdrawPayloadOf(assetId, quantity, withdrawAddress,
                                                  decimal, maxFees)} :
       \E orderBuffer \in {serializeWithdrawPayload(withdrawPayload)} :
          \E signed \in {Sign(orderBuffer)} :
          \E signaturePayload \in {SignedPayload(signed)} :
          SignAndSend("withdraw",
              [ coin |-> coin, assetId |-> assetId, quantity |-> quantity,
                withdrawAddress |-> withdrawAddress, decimal |-> decimal,
                maxFees |-> maxFees, network |-> network ],
              nonce, orderBuffer, signed,
              [sdk EXCEPT !.lastNonce = nonce,
                          !.lastOrderBuffer = BufferToHex(orderBuffer)],
                  [sdk EXCEPT !.lastNonce = nonce,
                              !.lastOrderBuffer = BufferToHex(orderBuffer),
                              !.lastSignature = signaturePayload,
                              !.lastOrderBody =
                                  [ accountId |-> sdk.accountId, coin |-> coin,
                                    network |-> network, maxFees |-> maxFees,
                                    withdrawAddress |-> slice2(withdrawAddress),
                                    quantity |-> quantity,
                                    signature |-> signaturePayload ]],
                  Request("POST", "/capital/withdraw",
                          [ accountId |-> sdk.accountId, coin |-> coin,
                            network |-> network, maxFees |-> maxFees,
                            withdrawAddress |-> slice2(withdrawAddress),
                            quantity |-> quantity, signature |-> signaturePayload ]))
    /\ UNCHANGED <<clock, probe>>

serializeTransferPayload(payload) ==
    BufferConcat(<< toBytes(payload.nonce, 8),
                    toBytes(payload.assetId, 4),
                    toBytes(quantityWithDecimal(6, payload.quantity), 8),
                    PublicKeyBytes(decompressPublicKey(payload.dstPubKey)),
                    toBytes(feesPercentWithDecimal(payload.maxFees), 8) >>)

\* the standalone DigestSerializer.serializeTransferPayload of the signing
\* script: the max fees are encoded as they are given
Hmac_serializeTransferPayload(payload) ==
    BufferConcat(<< toBytes(payload.nonce, 8),
                    toBytes(payload.assetId, 4),
                    toBytes(quantityWithDecimal(6, payload.quantity), 8),
                    PublicKeyBytes(decompressPublicKey(payload.dstPubKey)),
                    toBytes(payload.maxFees, 8) >>)

\* transfer(assetId, quantity, coin, receivingAddress, maxFees), up to its
\* first await: it asks the server for the receiver's public key
transfer(assetId, quantity, coin, receivingAddress, maxFees) ==
    /\ Len(calls) < MaxCalls
    /\ \E nonce \in {DateNow} :
          /\ sdk' = [sdk EXCEPT !.lastNonce = nonce]
          /\ wire' = Append(wire, Request("GET", "/capital/transfer-info",
                                          [ receivingAddress |-> receivingAddress,
                                            accountId |-> sdk.accountId ]))
          /\ calls' = Append(calls, [ op |-> "transfer", pc |-> "awaitingKey",
                                      error |-> "none", nonce |-> nonce, digest |-> <<>>,
                                      signature |-> EmptySignature,
                                      assetId |-> assetId, quantity |-> quantity,
                                      coin |-> coin, maxFees |-> maxFees,
                                      dstPublicKey |-> <<>> ])
    /\ UNCHANGED <<clock, probe>>

\* a variant of transferResume that sends the nonce kept in the instance
transferResume_lastNonce(i, dstPublicKey) ==
    /\ calls[i].pc = "awaitingKey"
    /\ \E comPubKey \in {compressPublicKey(substring2(dstPublicKey))} :
       \E transferPayload \in {[ assetId |-> NumOfNat(calls[i].assetId),
                                  quantity |-> calls[i].quantity,
                                  maxFees |-> BigNumber(calls[i].maxFees),
                                  nonce |-> calls[i].nonce, dstPubKey |-> comPubKey ]} :
       \E orderBuffer \in {serializeTransferPayload(transferPayload)} :
       \E signed \in {Sign(orderBuffer)} :
          IF signed.threw # "none"
          THEN /\ calls' = [calls EXCEPT ![i].pc = "threw", ![i].error = signed.threw,
                                         ![i].digest = orderBuffer,
                                         ![i].dstPublicKey = dstPublicKey]
               /\ UNCHANGED <<sdk, wire>>
          ELSE \E signaturePayload \in {SignaturePayload(signed.signature)} :
                  /\ sdk' = [sdk EXCEPT !.lastSignature = signaturePayload]
                  /\ wire' = Append(wire, Request("POST", "/capital/transfer",
                                [ accountId |-> sdk.accountId, coin |-> calls[i].coin,
                                  fees |-> calls[i].maxFees,
                                  nonce |-> sdk.lastNonce,
                                  quantity |-> calls[i].quantity,
                                  dstPublicKey |-> decompressPublicKey(comPubKey),
                                  signature |-> signaturePayload ]))
                  /\ calls' = [calls EXCEPT ![i].pc = "awaiting",
                                            ![i].digest = orderBuffer,
                                            ![i].signature = signaturePayload,
                                            ![i].dstPublicKey = dstPublicKey]
    /\ UNCHANGED <<clock, probe>>

\* transfer resumes with the key response: it signs and posts the transfer
transferResume(i, dstPublicKey) ==
    /\ calls[i].pc = "awaitingKey"
    /\ \E comPubKey \in {compressPublicKey(substring2(dstPublicKey))} :
       \E transferPayload \in {[ assetId |-> NumOfNat(calls[i].assetId),
                                  quantity |-> calls[i].quantity,
                                  maxFees |-> BigNumber(calls[i].maxFees),
                                  nonce |-> calls[i].nonce, dstPubKey |-> comPubKey ]} :
       \E orderBuffer \in {serializeTransferPayload(transferPayload)} :
       \E signed \in {Sign(orderBuffer)} :
          IF signed.threw # "none"
          THEN /\ calls' = [calls EXCEPT ![i].pc = "threw", ![i].error = signed.threw,
                                         ![i].digest = orderBuffer,
                                         ![i].dstPublicKey = dstPublicKey]
               /\ UNCHANGED <<sdk, wire>>
          ELSE \E signaturePayload \in {SignaturePayload(signed.signature)} :
                  /\ sdk' = [sdk EXCEPT !.lastSignature = signaturePayload]
                  /\ wire' = Append(wire, Request("POST", "/capital/transfer",
                                [ accountId |-> sdk.accountId, coin |-> calls[i].coin,
                                  fees |-> calls[i].maxFees,
                                  nonce |-> transferPayload.nonce,
                                  quantity |-> calls[i].quantity,
                                  dstPublicKey |-> decompressPublicKey(comPubKey),
                                  signature |-> signaturePayload ]))
                  /\ calls' = [calls EXCEPT ![i].pc = "awaiting",
                                            ![i].digest = orderBuffer,
                                            ![i].signature = signaturePayload,
                                            ![i].dstPublicKey = dstPublicKey]
    /\ UNCHANGED <<clock, probe>>

(***************************************************************************)
(* sendBatchOrder: every order of the batch is given the nonce             *)
(* Date.now() + count and is signed by its action; the batch is posted     *)
(* when the loop has gone through all of them.                             *)
(***************************************************************************)
BatchActions == {"place", "modify", "cancel"}

\* order.side, which is undefined when the order has no side
SideOf(order) == IF "side" \in DOMAIN order THEN order.side ELSE "undefined"

\* a variant of BatchDigest that reads the clock again for the nonce field
BatchDigest_clock(order, nonce) ==
    IF order.action = "place"
    THEN serializeOrder([ nonce |-> DateNow, contractId |-> NumOfNat(order.contractId),
                          totalQuantity |-> order.quantity, side |-> SideOf(order),
                          price |-> order.price,
                          maxFees |-> Number(order.maxFeesPercent) ],
                        order.underlyingDecimals)
    ELSE IF order.action = "modify"
    THEN serializeOrder([ nonce |-> DateNow, contractId |-> NumOfNat(2),
                          totalQuantity |-> order.updatedQuantity,
                          side |-> SideOf(order),
                          price |-> order.updatedPrice,
                          maxFees |-> Number(order.maxFeesPercent) ],
                        order.underlyingDecimals)
    ELSE serializeOrderId(order.orderId)

\* the digest of one order of a batch
BatchDigest(order, nonce) ==
    IF order.action = "place"
    THEN serializeOrder([ nonce |-> nonce, contractId |-> NumOfNat(order.contractId),
                          totalQuantity |-> order.quantity, side |-> SideOf(order),
                          price |-> order.price,
                          maxFees |-> Number(order.maxFeesPercent) ],
                        order.underlyingDecimals)
    ELSE IF order.action = "modify"
    THEN serializeOrder([ nonce |-> nonce, contractId |-> NumOfNat(2),
                          totalQuantity |-> order.updatedQuantity,
                          side |-> SideOf(order),
                          price |-> order.updatedPrice,
                          maxFees |-> Number(order.maxFeesPercent) ],
                        order.underlyingDecimals)
    ELSE serializeOrderId(order.orderId)

\* delete order.side
DeleteSide(order) == [k \in DOMAIN order \ {"side"} |-> order[k]]

\* the order as it is pushed to serializedOrders
BatchSigned(order, nonce, signaturePayload) ==
    IF order.action = "modify"
    THEN DeleteSide([nonce |-> nonce, signature |-> signaturePayload] @@ order)
    ELSE [nonce |-> nonce, signature |-> signaturePayload] @@ order

BatchSignature(order, nonce, orderBuffer, signed) ==
    IF signed.threw # "none"
    THEN [threw |-> signed.threw, digest |-> orderBuffer]
    ELSE [ threw |-> "none", digest |-> orderBuffer,
           order |-> BatchSigned(order, nonce, SignaturePayload(signed.signature)) ]

BatchSign(order, nonce, orderBuffer) ==
    BatchSignature(order, nonce, orderBuffer, Sign(orderBuffer))

\* a variant of the loop body without the default case: an order with an
\* unknown action is pushed unsigned
BatchElement_noDefault(order, nonce) ==
    IF order.action \notin BatchActions
    THEN [ threw |-> "none", digest |-> <<>>,
           order |-> BatchSigned(order, nonce, EmptySignature) ]
    ELSE BatchSign(order, nonce, BatchDigest(order, nonce))

\* one pass of the loop body
BatchElement(order, nonce) ==
    IF order.action \notin BatchActions
    THEN [threw |-> "Unknown action type", digest |-> <<>>]
    ELSE BatchSign(order, nonce, BatchDigest(order, nonce))

\* Date.now() + count, Date.now() being read when the clock shows now
NoncePlus(now, count) == Integer(1, AddDigits(Epoch, NatDigits(now + count), 0, 10))

\* the readings of Date.now() in n passes of the loop: time does not go back
BatchTimes(n) ==
    {times \in [1..n -> clock..MaxClock] : \A i \in 1..(n - 1) : times[i] <= times[i + 1]}

RECURSIVE BatchLoop(_, _, _, _)
RECURSIVE BatchStep(_, _, _, _, _)
\* the loop from the order after the first count ones
BatchLoop(orders, times, count, serializedOrders) ==
    IF count = Len(orders) THEN [threw |-> "none", orders |-> serializedOrders]
    ELSE BatchStep(orders, times, count, serializedOrders,
                   BatchElement(orders[count + 1], NoncePlus(times[count + 1], count)))

BatchStep(orders, times, count, serializedOrders, element) ==
    IF element.threw # "none"
    THEN [threw |-> element.threw, orders |-> serializedOrders]
    ELSE BatchLoop(orders, times, count + 1,
                   Append(serializedOrders,
                          [order |-> element.order, digest |-> element.digest]))

\* the caller's order objects when the loop has ended: the loop writes the
\* nonce, the signature and the deletion of side into the objects it is given,
\* and the order at which it threw has its nonce already
OrdersAfter(orders, times, batch) ==
    [ k \in 1..Len(orders) |->
        IF k <= Len(batch.orders) THEN batch.orders[k].order
        ELSE IF k = Len(batch.orders) + 1
        THEN [orders[k] EXCEPT !.nonce = NoncePlus(times[k], k - 1)]
        ELSE orders[k] ]

\* sendBatchOrder(orders)
sendBatchOrder(orders) ==
    /\ Len(calls) < MaxCalls
    /\ \E times \in BatchTimes(Len(orders)) :
       \E batch \in {BatchLoop(orders, times, 0, <<>>)} :
          /\ clock' = IF orders = <<>> THEN clock ELSE times[Len(orders)]
          /\ IF batch.threw # "none"
             THEN /\ calls' = Append(calls, [ op |-> "sendBatchOrder", pc |-> "threw",
                                              error |-> batch.threw, nonce |-> DateNow,
                                              digest |-> <<>>,
                                              signature |-> EmptySignature,
                                              args |-> orders, orders |-> batch.orders,
                                              after |-> OrdersAfter(orders, times, batch) ])
                  /\ UNCHANGED <<sdk, wire>>
             ELSE \E serializedOrders \in
                       {[i \in 1..Len(batch.orders) |-> batch.orders[i].order]} :
                     /\ sdk' = [sdk EXCEPT !.lastOrderBody = serializedOrders]
                     /\ wire' = Append(wire, Request("POST", "/trade/orders",
                                   [ accountId |-> sdk.accountId,
                                     orders |-> serializedOrders ]))
                     /\ calls' = Append(calls, [ op |-> "sendBatchOrder",
                                                 pc |-> "awaiting", error |-> "none",
                                                 nonce |-> DateNow, digest |-> <<>>,
                                                 signature |-> EmptySignature,
                                                 args |-> orders,
                                                 orders |-> batch.orders,
                                                 after |-> OrdersAfter(orders, times, batch) ])
    /\ UNCHANGED probe

(***************************************************************************)
(* HibachiSDK.sendBatchOrder, the batch of the HMAC class, up to its await: *)
(* an order keeps the nonce it came with, or gets Date.now(); the digest   *)
(* of each order is signed with the HMAC key; then the batch is posted.    *)
(***************************************************************************)
\* serializeEditPayload(payload, sdk): payload.OrderId is undefined unless the
\* caller has spelled it so
Hmac_serializeEditPayload(payload) ==
    BufferConcat(<< toBytes(IF "OrderId" \in DOMAIN payload
                            THEN BigNumber(payload.OrderId) ELSE NaN, 8),
                    toBytes(payload.nonce, 8),
                    toBytes(Hmac_quantityFromReal(BigNumber(payload.updatedQuantity)), 8),
                    toBytes(Hmac_priceFromReal(BigNumber(payload.updatedPrice)), 8) >>)

\* if (!order.nonce) order.nonce = Date.now()
Hmac_BatchNonce(order, now) ==
    IF order.nonce = null \/ isZero(order.nonce) \/ isNaN(order.nonce)
    THEN Integer(1, AddDigits(Epoch, NatDigits(now), 0, 10))
    ELSE order.nonce

Hmac_BatchDigest(order) ==
    IF order.action = "place"
    THEN Hmac_serializeOrder([ nonce |-> order.nonce, contractId |-> NumOfNat(2),
                               totalQuantity |-> order.quantity, side |-> order.side,
                               price |-> order.price, maxFees |-> NumOfNat(0) ])
    ELSE IF order.action = "modify" THEN Hmac_serializeEditPayload(order)
    ELSE serializeOrderId(order.orderId)

\* one pass of the loop body, the order carrying its nonce
Hmac_BatchElement(order) ==
    IF order.action \notin BatchActions
    THEN [threw |-> "Unknown action type"]
    ELSE [ threw |-> "none", digest |-> Hmac_BatchDigest(order),
           order |-> [signature |-> [hmac |-> Hmac_BatchDigest(order)]] @@ order ]

RECURSIVE Hmac_BatchLoop(_, _, _, _)
RECURSIVE Hmac_BatchStep(_, _, _, _, _)
Hmac_BatchLoop(orders, times, count, serializedOrders) ==
    IF count = Len(orders) THEN [threw |-> "none", orders |-> serializedOrders]
    ELSE Hmac_BatchStep(orders, times, count, serializedOrders,
            Hmac_BatchElement([orders[count + 1] EXCEPT
                !.nonce = Hmac_BatchNonce(orders[count + 1], times[count + 1])]))

Hmac_BatchStep(orders, times, count, serializedOrders, element) ==
    IF element.threw # "none"
    THEN [threw |-> element.threw, orders |-> serializedOrders]
    ELSE Hmac_BatchLoop(orders, times, count + 1,
                        Append(serializedOrders,
                               [order |-> element.order, digest |-> element.digest]))

\* what the call has done when it throws or reaches its await
Hmac_sendBatchOrderOf(accountId, batch) ==
    IF batch.threw # "none"
    THEN [threw |-> batch.threw, orders |-> batch.orders, posted |-> <<>>]
    ELSE [ threw |-> "none", orders |-> batch.orders,
           posted |-> <<Request("POST", "/trade/orders",
                          [ accountId |-> accountId,
                            orders |-> [i \in 1..Len(batch.orders) |->
                                           batch.orders[i].order] ])>> ]

\* sendBatchOrder(accountId, orders)
Hmac_sendBatchOrder(accountId, orders, times) ==
    Hmac_sendBatchOrderOf(accountId, Hmac_BatchLoop(orders, times, 0, <<>>))

(***************************************************************************)
(* The caller and the server.                                              *)
(***************************************************************************)
PlaceOrder == [ action |-> "place", contractId |-> 2, quantity |-> Str_0_00001,
                side |-> "BID", price |-> Str_100004_0, maxFeesPercent |-> Str_0_045,
                underlyingDecimals |-> 8, nonce |-> null ]

ModifyOrder == [ action |-> "modify", orderId |-> Str_123, updatedQuantity |-> Str_1,
                 side |-> "ASK", updatedPrice |-> Str_100004_0,
                 maxFeesPercent |-> Str_0_045, contractId |-> 2,
                 underlyingDecimals |-> 8, nonce |-> null ]

CancelOrder == [action |-> "cancel", orderId |-> Str_123, nonce |-> null]

UnknownOrder == [action |-> "replace", orderId |-> Str_123, nonce |-> null]

\* a batch whose orders come with distinct nonces of the caller
NoncedBatch ==
    << [PlaceOrder EXCEPT !.nonce = NumOfNat(7)], [CancelOrder EXCEPT !.nonce = NumOfNat(5)] >>

Batches ==
    { <<>>, <<PlaceOrder, CancelOrder>>, <<ModifyOrder>>, <<CancelOrder, UnknownOrder>>,
      <<UnknownOrder>>, NoncedBatch, <<[ModifyOrder EXCEPT !.contractId = 1]>> }

SendOrder ==
    \E i \in 1..Len(calls) :
        /\ calls[i].op = "createOrder"
        /\ calls[i].pc = "returned"
        /\ sendOrder(calls[i].value)

CxlOrder == cxlOrder(Str_123)

CxlAllOrders == cxlAllOrders

EditOrder ==
    editOrder(Str_123, [side |-> "ASK"], Str_1, Str_100004_0, Str_0_045, 2, 8)

\* the address is given with its 0x prefix or as bare hex
Withdraw ==
    \E withdrawAddress \in {Str_address, slice2(Str_address)} :
        withdraw("USDT", 1, Str_1, withdrawAddress, 6, Str_0_045, "arbitrum")

Transfer == transfer(1, Str_1, "USDT", Str_address, Str_0_045)

\* the server answers the key request of a transfer
TransferResume ==
    \E i \in 1..Len(calls), e \in AccountKeys :
        transferResume(i, KeyString(ScalarMul(e)))

\* the order arrays that earlier calls of sendBatchOrder have left behind
SubmittedBatches ==
    {calls[i].after : i \in {j \in 1..Len(calls) : calls[j].op = "sendBatchOrder"}}

\* the caller submits a new batch, or an array it has submitted before
SendBatchOrder == \E orders \in Batches \cup SubmittedBatches : sendBatchOrder(orders)

\* a response arrives: the operation stores it and returns
Respond ==
    \E i \in 1..Len(calls) :
        /\ calls[i].pc = "awaiting"
        /\ sdk' = [sdk EXCEPT !.lastResponse = [status |-> 200, call |-> i]]
        /\ calls' = [calls EXCEPT ![i].pc = "returned"]
        /\ UNCHANGED <<clock, wire, probe>>

\* a request fails: the operation throws the error of the HTTP client
RequestFails ==
    \E i \in 1..Len(calls) :
        /\ calls[i].pc \in {"awaiting", "awaitingKey"}
        /\ calls' = [calls EXCEPT ![i].pc = "threw", ![i].error = "request failed"]
        /\ UNCHANGED <<sdk, clock, wire, probe>>

\* time passes
Tick ==
    /\ clock < MaxClock
    /\ clock' = clock + 1
    /\ UNCHANGED <<sdk, calls, wire, probe>>

Next ==
    \/ CreateOrder
    \/ SendOrder
    \/ CxlOrder
    \/ CxlAllOrders
    \/ EditOrder
    \/ Withdraw
    \/ Transfer
    \/ TransferResume
    \/ SendBatchOrder
    \/ Respond
    \/ RequestFails
    \/ Tick

Spec == Init /\ [][Next]_vars

(***************************************************************************)
(* The conversion and encoding functions on their own.  A decimal text and *)
(* an asset precision are drawn at the start; each action applies one      *)
(* function to them and records arguments and result in probe.             *)
(***************************************************************************)
\* bounds of the drawn decimal texts: digits before and after the point
MaxIntDigits == 1

MaxPlaces == 2

DigitChars == {"0", "9"}

DigitStrings(lo, hi) == UNION {[1..k -> DigitChars] : k \in lo..hi}

DecimalTexts ==
    {ip \o (IF fp = <<>> THEN <<>> ELSE <<".">> \o fp) :
        ip \in DigitStrings(1, MaxIntDigits), fp \in DigitStrings(0, MaxPlaces)}

\* 2^64 - 1, 2^64 and 3 * 10^20: the largest value of 8 bytes, and values of
\* 17 and 18 hex digits
Str_2pow64minus1 == <<"1", "8", "4", "4", "6", "7", "4", "4", "0", "7",
                      "3", "7", "0", "9", "5", "5", "1", "6", "1", "5">>

Str_2pow64 == <<"1", "8", "4", "4", "6", "7", "4", "4", "0", "7",
                "3", "7", "0", "9", "5", "5", "1", "6", "1", "6">>

Str_3e20 == <<"3">> \o [i \in 1..20 |-> "0"]

Str_Infinity == <<"I", "n", "f", "i", "n", "i", "t", "y">>

Str_0_5 == <<"0", ".", "5">>

Str_9999 == <<"9", "9", "9", "9">>

Str_999999999999 == [i \in 1..12 |-> "9"]

\* texts of more than 15 significant digits: a double does not hold them
\* exactly, so they are given to BigNumber only, never to Number
WideTexts == {Str_2pow64minus1, Str_2pow64, Str_3e20}

DoubleTexts ==
    DecimalTexts \cup {<<"-">> \o t : t \in DecimalTexts}
      \cup {Str_0_00001, Str_100004_0, Str_0_045, Str_minus1, Str_empty, Str_abc,
            Str_1e_9, Str_0_5, Str_9999, Str_999999999999, Str_Infinity}

Texts == DoubleTexts \cup WideTexts

\* asset precisions: price shifts 6, 0, -2 and -4
Precisions == {0, 6, 8, 10}

InitConv ==
    /\ sdk = null
    /\ clock = 0
    /\ calls = <<>>
    /\ wire = <<>>
    /\ \E text \in Texts, underlyingDecimals \in Precisions :
          probe = [fn |-> "none", text |-> text, underlyingDecimals |-> underlyingDecimals]

\* the record of one application
Applied(fn, args, out) ==
    [fn |-> fn, text |-> probe.text, underlyingDecimals |-> probe.underlyingDecimals,
     args |-> args, threw |-> "none", out |-> out]

Unprobed == probe.fn = "none" /\ UNCHANGED <<sdk, clock, calls, wire>>

\* the text may be read with Number(text)
UnprobedDouble == Unprobed /\ probe.text \in DoubleTexts

ApplyToBytes ==
    /\ Unprobed
    /\ \E numBytes \in {4, 8} : \E value \in {BigNumber(probe.text)} :
          probe' = Applied("toBytes", [value |-> value, numBytes |-> numBytes],
                           toBytes(value, numBytes))

ApplyFeesPercentWithDecimal ==
    /\ UnprobedDouble
    /\ \E fees \in {Number(probe.text)} :
          probe' = Applied("feesPercentWithDecimal", [fees |-> fees],
                           feesPercentWithDecimal(fees))

ApplyQuantityFromReal ==
    /\ UnprobedDouble
    /\ \E quantity \in {Number(probe.text)} :
          probe' = Applied("quantityFromReal", [quantity |-> quantity],
                           quantityFromReal(quantity, probe.underlyingDecimals))

ApplyQuantityWithDecimal ==
    /\ Unprobed
    /\ probe' = Applied("quantityWithDecimal", [quantity |-> BigNumber(probe.text)],
                        quantityWithDecimal(probe.underlyingDecimals, probe.text))

ApplyPriceFromReal ==
    /\ UnprobedDouble
    /\ \E price \in {Number(probe.text)} :
          probe' = Applied("priceFromReal", [price |-> price],
                           priceFromReal(price, probe.underlyingDecimals))

ApplyHmacPriceFromReal ==
    /\ UnprobedDouble
    /\ \E price \in {Number(probe.text)} :
          probe' = Applied("HibachiSDK.priceFromReal", [price |-> price],
                           Hmac_priceFromReal(price))

\* the order of the SDK's example, with one of its fields replaced by the text
OrderPayload(field, side) ==
    [ nonce |-> Integer(1, Epoch), contractId |-> NumOfNat(2), side |-> side,
      totalQuantity |-> IF field = "totalQuantity" THEN probe.text ELSE Str_0_00001,
      price |-> IF field = "price" THEN probe.text ELSE Str_100004_0,
      maxFees |-> Number(IF field = "maxFees" THEN probe.text ELSE Str_0_045) ]

\* the same payload with price undefined
WithoutPrice(payload) == [k \in DOMAIN payload \ {"price"} |-> payload[k]]

OrderFields == {"totalQuantity", "price", "maxFees"}

ApplySerializeOrder ==
    /\ UnprobedDouble
    /\ \E field \in OrderFields, side \in {"ASK", "BID"} :
       \E payload \in {OrderPayload(field, side)} :
          probe' = Applied("serializeOrder", [payload |-> payload, field |-> field],
                           serializeOrder(payload, probe.underlyingDecimals))

\* the digest of a priced order and of the same order without its price
ApplySerializeOrderPair ==
    /\ UnprobedDouble
    /\ \E field \in OrderFields :
       \E payload \in {OrderPayload(field, "BID")} :
          /\ HasPrice(payload)
          /\ probe' = Applied("serializeOrderPair", [payload |-> payload, field |-> field],
                        [ limit  |-> serializeOrder(payload, probe.underlyingDecimals),
                          market |-> serializeOrder(WithoutPrice(payload),
                                                    probe.underlyingDecimals) ])

\* the recovery ids a Signature may carry (recoveryParam: number | null)
RecoveryParams == 0..4

RecoveryParam(k) == IF k = 4 THEN null ELSE NumOfNat(k)

\* the payload of a signature whose r is the text, for each recovery id
ApplySignaturePayload ==
    /\ Unprobed
    /\ \E r \in {BigNumber(probe.text)} :
          /\ isInteger(r)
          /\ r.s > 0
          /\ ~isZero(r)
          /\ \E k \in RecoveryParams :
             \E ecdsaSignature \in {[ r |-> r, s |-> NumOfNat(k + 1),
                                      recoveryParam |-> RecoveryParam(k),
                                      signer |-> 2, msgHash |-> null ]} :
                probe' = Applied("signaturePayload", [ecdsaSignature |-> ecdsaSignature],
                                 SignaturePayload(ecdsaSignature))

\* the withdraw digest of the same withdrawal, its address given once with the
\* 0x prefix and once as bare hex; the text is the quantity
ApplySerializeWithdrawPair ==
    /\ Unprobed
    /\ probe' = Applied("serializeWithdrawPair",
                        [quantity |-> probe.text, withdrawAddress |-> Str_address],
                        [ prefixed |-> serializeWithdrawPayload(
                              WithdrawPayloadOf(1, probe.text, Str_address,
                                                probe.underlyingDecimals, Str_0_045)),
                          bare |-> serializeWithdrawPayload(
                              WithdrawPayloadOf(1, probe.text, slice2(Str_address),
                                                probe.underlyingDecimals, Str_0_045)) ])

\* the transfer payload of the SDK's example, one field replaced by the text
TransferPayloadOf(field) ==
    [ assetId |-> NumOfNat(1),
      quantity |-> IF field = "quantity" THEN probe.text ELSE Str_1,
      maxFees |-> BigNumber(IF field = "maxFees" THEN probe.text ELSE Str_1),
      nonce |-> Integer(1, Epoch),
      dstPubKey |-> compressPublicKey(ScalarMul(3)) ]

ApplySerializeTransferPayload ==
    /\ Unprobed
    /\ \E field \in {"quantity", "maxFees"} :
       \E payload \in {TransferPayloadOf(field)} :
          \/ probe' = Applied("serializeTransferPayload",
                              [payload |-> payload, field |-> field],
                              serializeTransferPayload(payload))
          \/ probe' = Applied("DigestSerializer.serializeTransferPayload",
                              [payload |-> payload, field |-> field],
                              Hmac_serializeTransferPayload(payload))

\* a batch given to the HMAC class; the text is the quantity of its place order
HmacBatch(orders) ==
    [i \in 1..Len(orders) |->
        IF orders[i].action = "place" THEN [orders[i] EXCEPT !.quantity = probe.text]
        ELSE orders[i]]

ApplyHmacSendBatchOrder ==
    /\ UnprobedDouble
    /\ \E batch \in Batches :
       \E orders \in {HmacBatch(batch)} :
       \E times \in BatchTimes(Len(orders)) :
          probe' = Applied("HibachiSDK.sendBatchOrder", [orders |-> orders, times |-> times],
                           Hmac_sendBatchOrder(123, orders, times))

\* the digests the two classes make of the same order payload
ApplySerializeOrderBoth ==
    /\ UnprobedDouble
    /\ \E field \in OrderFields :
       \E payload \in {OrderPayload(field, "ASK")} :
          probe' = Applied("serializeOrderBoth", [payload |-> payload, field |-> field],
                           [ ecdsa |-> serializeOrder(payload, probe.underlyingDecimals),
                             hmac  |-> Hmac_serializeOrder(payload) ])

\* the sides a caller may write: the two of the exchange, other texts, none
Sides == {"ASK", "BID", "SELL", "ask", "undefined"}

\* the payload of a well-formed order with the side as the caller wrote it;
\* it has no side field when the caller wrote none
SidedPayload(side) ==
    IF side = "undefined"
    THEN [k \in DOMAIN OrderPayload("none", side) \ {"side"} |-> OrderPayload("none", side)[k]]
    ELSE OrderPayload("none", side)

\* serializeOrder of a well-formed order, for every side
ApplySerializeOrderSide ==
    /\ UnprobedDouble
    /\ \E side \in Sides :
          probe' = Applied("serializeOrderSide", [side |-> side],
                           serializeOrder(SidedPayload(side), probe.underlyingDecimals))

NextConv ==
    \/ ApplyToBytes
    \/ ApplyFeesPercentWithDecimal
    \/ ApplyQuantityFromReal
    \/ ApplyQuantityWithDecimal
    \/ ApplyPriceFromReal
    \/ ApplyHmacPriceFromReal
    \/ ApplySerializeOrder
    \/ ApplySerializeOrderPair
    \/ ApplySignaturePayload
    \/ ApplySerializeWithdrawPair
    \/ ApplySerializeTransferPayload
    \/ ApplyHmacSendBatchOrder
    \/ ApplySerializeOrderBoth
    \/ ApplySerializeOrderSide

SpecConv == InitConv /\ [][NextConv]_vars

(***************************************************************************)
(* Properties.  What a field is meant to hold is stated on digit sequences,*)
(* apart from the conversions above.                                       *)
(***************************************************************************)
\* a finite value that is not negative
NonNegative(n) == isFinite(n) /\ n.s > 0

\* r is the floor of digits * 10^e: r * 10^-e <= digits < (r + 1) * 10^-e
IsFloorOf(r, digits, e) ==
    IF e >= 0 THEN CmpDigits(r, digits \o Zeros(e)) = 0
    ELSE /\ CmpDigits(r \o Zeros(-e), digits) <= 0
         /\ CmpDigits(AddDigits(r, <<1>>, 0, 10) \o Zeros(-e), digits) > 0

\* out is the non-negative integer floor(value * multiplier * 10^shift)
IsTruncatedProduct(out, value, multiplier, shift) ==
    /\ isInteger(out)
    /\ out.s > 0
    /\ IsFloorOf(out.c, MulDigits(value.c, multiplier), shift - value.dp)

\* the integer n fits in width bytes
Fits(n, width) == CmpDigits(n.c, pow(NumOfNat(256), width).c) < 0

\* the big-endian bytes of a non-negative integer, zero-padded on the left
\* to width bytes; <<>> for anything that is no such integer
BigEndian(n, width) ==
    IF isInteger(n) /\ (n.s > 0 \/ isZero(n)) /\ Fits(n, width)
    THEN padStart(StripLeadingZeros(toBaseOut(n.c, 10, 256)), width, 0)
    ELSE <<>>

\* the fields of a 40-byte order digest
OrderLayout(digest, payload, underlyingDecimals) ==
    /\ Len(digest) = 40
    /\ SubSeq(digest, 1, 8) = BigEndian(payload.nonce, 8)
    /\ SubSeq(digest, 9, 12) = BigEndian(payload.contractId, 4)
    /\ SubSeq(digest, 13, 20) =
         BigEndian(quantityFromReal(Number(payload.totalQuantity), underlyingDecimals), 8)
    /\ SubSeq(digest, 21, 24) = <<0, 0, 0, IF payload.side = "ASK" THEN 0 ELSE 1>>
    /\ SubSeq(digest, 25, 32) =
         BigEndian(priceFromReal(Number(payload.price), underlyingDecimals), 8)
    /\ SubSeq(digest, 33, 40) = BigEndian(feesPercentWithDecimal(payload.maxFees), 8)

\* C1: for every order payload with a price, serializeOrder returns exactly 40
\* bytes: nonce in 8, contractId in 4, scaled quantity in 8, side in 4 (0 for
\* ASK, 1 for BID), scaled price in 8 and scaled max fees in 8, each big-endian
\* and zero-padded on the left.
C1_FixedLayout ==
    (probe.fn = "serializeOrder" /\ HasPrice(probe.args.payload))
        => OrderLayout(probe.out, probe.args.payload, probe.underlyingDecimals)

\* the price of a payload scales to a non-negative integer of at most 8 bytes
PriceEncodable(payload, underlyingDecimals) ==
    BigEndian(priceFromReal(Number(payload.price), underlyingDecimals), 8) # <<>>

C4_IntegerTooLarge ==
    (/\ probe.fn = "toBytes"
     /\ isInteger(probe.args.value)
     /\ probe.args.value.s > 0
     /\ ~Fits(probe.args.value, probe.args.numBytes))
        => probe.threw = "IntegerTooLarge"

\* C5: every buffer returned by toBytes(value, numBytes) has exactly numBytes
\* bytes, whatever the value.
C5_ExactWidth ==
    probe.fn = "toBytes" => Len(probe.out) = probe.args.numBytes

\* a value that is NaN, infinite or negative
InvalidNumeric(n) == ~isFinite(n) \/ (n.s < 0 /\ ~isZero(n))

\* C6: quantity, price and fee conversion fail with InvalidNumericInput when
\* the value does not parse as a decimal, is not finite or is negative, and no
\* digest is produced from such a value.
C6_InvalidNumericInput ==
    /\ (/\ probe.fn \in {"quantityFromReal", "priceFromReal", "feesPercentWithDecimal"}
        /\ InvalidNumeric(Number(probe.text)))
           => probe.threw = "InvalidNumericInput"
    /\ (/\ probe.fn = "serializeOrder"
        /\ HasPrice(probe.args.payload)
        /\ InvalidNumeric(Number(probe.text)))
           => probe.threw = "InvalidNumericInput"

\* C7: for every non-negative fee the fee conversion returns the integer
\* floor(fee * 10^8), also when the fee has more than 8 decimal places.
C7_FeeTruncated ==
    (probe.fn = "feesPercentWithDecimal" /\ NonNegative(probe.args.fees))
        => IsTruncatedProduct(probe.out, probe.args.fees, <<1>>, 8)

\* C8: for every non-negative value, quantityFromReal and quantityWithDecimal
\* return floor(value * 10^underlyingDecimals), never more than the exact
\* product; 0.00001 with 8 decimals gives 1000.
C8_QuantityTruncated ==
    /\ (/\ probe.fn \in {"quantityFromReal", "quantityWithDecimal"}
        /\ NonNegative(probe.args.quantity))
           => IsTruncatedProduct(probe.out, probe.args.quantity, <<1>>,
                                 probe.underlyingDecimals)
    /\ (/\ probe.fn \in {"quantityFromReal", "quantityWithDecimal"}
        /\ probe.text = Str_0_00001
        /\ probe.underlyingDecimals = 8)
           => probe.out = [s |-> 1, c |-> <<1, 0, 0, 0>>, dp |-> 0]

\* quantityFromReal has dropped fractional digits of a product that is no integer
C8_Witness ==
    /\ probe.fn = "quantityFromReal"
    /\ NonNegative(probe.args.quantity)
    /\ probe.args.quantity.dp > probe.underlyingDecimals
    /\ ~isZero(probe.out)

\* C9: for every non-negative price and every asset precision, priceFromReal
\* returns floor(price * 10^(6 - underlyingDecimals) * 2^32): the decimal shift
\* follows the asset's underlyingDecimals.
C9_PriceShift ==
    (/\ probe.fn \in {"priceFromReal", "HibachiSDK.priceFromReal"}
     /\ NonNegative(probe.args.price))
        => IsTruncatedProduct(probe.out, probe.args.price, PRICE_MULTIPLIER.c,
                              6 - probe.underlyingDecimals)

\* the digest createOrder would sign for call c had the payload no price
DigestWithoutPrice(c) ==
    serializeOrder([ nonce |-> c.nonce, contractId |-> NumOfNat(c.contractId),
                     totalQuantity |-> c.value.quantity, side |-> c.value.side,
                     maxFees |-> Number(c.value.maxFeesPercent) ],
                   c.underlyingDecimals)

\* C2: for every order created with orderType MARKET and for every order
\* without a price, the signed digest has no price field: the side field is
\* followed at once by the max-fees field, and no price of eight zero bytes is
\* encoded.
C2_NoPriceField ==
    \A i \in 1..Len(calls) :
        (/\ calls[i].op = "createOrder"
         /\ (calls[i].value.orderType = "MARKET" \/ calls[i].value.price = <<>>))
            => calls[i].digest = DigestWithoutPrice(calls[i])

SigningOps ==
    {"createOrder", "cxlOrder", "cxlAllOrders", "editOrder", "withdraw", "transfer",
     "sendBatchOrder"}

\* C10 (as claimed): when the public key derived from the private key differs
\* from the configured one, every signing operation fails with the public key
\* mismatch error, no signature is produced and no request is transmitted.
C10_NoRequestAtAll ==
    ~KeysMatch =>
        /\ wire = <<>>
        /\ sdk.lastSignature = null
        /\ \A i \in 1..Len(calls) :
              calls[i].op \in SigningOps =>
                  /\ calls[i].signature = EmptySignature
                  /\ calls[i].pc \notin {"awaiting", "returned"}

\* C10 (amended): with differing keys every signing step fails with the error
\* "Public key mismatches.": no signature is produced and no request that
\* carries a signature is transmitted.  The requests that are made before or
\* without a signing step still go out: the GET of the transfer-info that
\* transfer makes before it signs, and the POST of a batch that has no orders.
C10_KeyMismatch ==
    ~KeysMatch =>
        /\ \A j \in 1..Len(wire) :
              \/ wire[j].method = "GET" /\ wire[j].url = "/capital/transfer-info"
              \/ /\ wire[j].method = "POST"
                 /\ wire[j].url = "/trade/orders"
                 /\ "orders" \in DOMAIN wire[j].data
                 /\ wire[j].data.orders = <<>>
        /\ sdk.lastSignature = null
        /\ \A i \in 1..Len(calls) :
              calls[i].op \in SigningOps =>
                  /\ calls[i].signature = EmptySignature
                  /\ calls[i].pc \in {"awaiting", "returned"} =>
                        calls[i].op = "sendBatchOrder" /\ calls[i].orders = <<>>
                  /\ calls[i].pc = "threw" =>
                        \/ calls[i].error = "Public key mismatches."
                        \/ calls[i].error = "request failed"
                              /\ \/ calls[i].op = "transfer"
                                 \/ calls[i].op = "sendBatchOrder" /\ calls[i].orders = <<>>
                        \/ /\ calls[i].op = "sendBatchOrder"
                           /\ calls[i].error = "Unknown action type"
                           /\ calls[i].orders = <<>>
                  /\ calls[i].pc = "awaitingKey" => calls[i].op = "transfer"

\* with differing keys, a transfer has sent its key request and has then
\* failed at the signing step
C10_Witness ==
    /\ ~KeysMatch
    /\ \E i \in 1..Len(calls) :
          /\ calls[i].op = "transfer"
          /\ calls[i].pc = "threw"
          /\ calls[i].error = "Public key mismatches."
    /\ \E i \in 1..Len(calls) :
          /\ calls[i].op = "sendBatchOrder"
          /\ calls[i].error = "Public key mismatches."
    /\ Len(wire) = 1

\* the 32 big-endian bytes of a positive integer below 2^256
Bytes32(n) == padStart(StripLeadingZeros(toBaseOut(n.c, 10, 256)), 32, 0)

\* the hex text of r and s, 32 bytes each
HexOfRS(signature) == BufferToHex(Bytes32(signature.r) \o Bytes32(signature.s))

\* C11: whenever the signature carries a recovery id in 0..3, 0 included, the
\* signature payload has exactly 130 hex characters: r in 32 bytes, s in 32
\* bytes, then the recovery id as one byte.
C11_Payload130 ==
    (/\ probe.fn = "signaturePayload"
     /\ probe.args.ecdsaSignature.recoveryParam # null)
        => /\ Len(probe.out.text) = 130
           /\ probe.out.text =
                HexOfRS(probe.args.ecdsaSignature)
                  \o BufferToHex(BigEndian(probe.args.ecdsaSignature.recoveryParam, 1))

\* a signature with recovery id 0 has got its payload of 130 characters
C11_Witness ==
    /\ probe.fn = "signaturePayload"
    /\ probe.args.ecdsaSignature.recoveryParam = NumOfNat(0)
    /\ Len(probe.out.text) = 130

AddressBytes == BufferFromHex(slice2(Str_address))

\* the fields of a 40-byte withdraw digest
WithdrawLayout(digest, assetId, quantity, decimal, maxFees) ==
    /\ Len(digest) = 40
    /\ SubSeq(digest, 1, 4) = BigEndian(NumOfNat(assetId), 4)
    /\ SubSeq(digest, 5, 12) = BigEndian(quantityWithDecimal(decimal, quantity), 8)
    /\ SubSeq(digest, 13, 20) = BigEndian(quantityWithDecimal(decimal, maxFees), 8)
    /\ SubSeq(digest, 21, 40) = AddressBytes

\* C13: every withdraw digest that gets signed has exactly 40 bytes: assetId
\* in 4, the quantity scaled by the asset's decimals in 8, the scaled max fees
\* in 8, then the 20 raw bytes of the withdrawal address; an address that does
\* not decode to 20 bytes is never signed.
C13_WithdrawDigest40 ==
    \A i \in 1..Len(calls) :
        (calls[i].op = "withdraw" /\ calls[i].signature # EmptySignature)
            => WithdrawLayout(calls[i].digest, 1, Str_1, 6, Str_0_045)

\* C14: the withdraw digest is the same whether the withdrawal address is
\* given with its 0x prefix or without it: both end with the same 20 address
\* bytes.
C14_PrefixOptional ==
    probe.fn = "serializeWithdrawPair" =>
        /\ probe.out.prefixed = probe.out.bare
        /\ Len(probe.out.bare) >= 20
        /\ SubSeq(probe.out.bare, Len(probe.out.bare) - 19, Len(probe.out.bare))
              = AddressBytes

TransferSerializers ==
    {"serializeTransferPayload", "DigestSerializer.serializeTransferPayload"}

\* the fields of a 92-byte transfer digest; the fee field of the SDK holds the
\* fees scaled by 10^8
TransferLayout(digest, payload, fn) ==
    /\ Len(digest) = 92
    /\ SubSeq(digest, 1, 8) = BigEndian(payload.nonce, 8)
    /\ SubSeq(digest, 9, 12) = BigEndian(payload.assetId, 4)
    /\ SubSeq(digest, 13, 20) = BigEndian(quantityWithDecimal(6, payload.quantity), 8)
    /\ SubSeq(digest, 21, 84) =
         Bytes32(NumOfNat(ScalarMul(3)[1])) \o Bytes32(NumOfNat(ScalarMul(3)[2]))
    /\ fn = "serializeTransferPayload" =>
         SubSeq(digest, 85, 92) = BigEndian(feesPercentWithDecimal(payload.maxFees), 8)

\* C15: every transfer digest has exactly 92 bytes in this order: nonce in 8,
\* assetId in 4, the quantity scaled by 10^6 in 8, the 64 bytes of the
\* decompressed destination public key, the scaled max fees in 8.
C15_TransferDigest92 ==
    probe.fn \in TransferSerializers =>
        TransferLayout(probe.out, probe.args.payload, probe.fn)

\* the nonces of the orders of a batch increase strictly in element order
StrictlyIncreasing(orders) ==
    \A k \in 1..(Len(orders) - 1) :
        CmpDigits(orders[k].order.nonce.c, orders[k + 1].order.nonce.c) < 0

\* C16: within one sendBatchOrder call the nonces of the elements are strictly
\* increasing in element order, so no two elements of a batch carry the same
\* nonce.
C16_StrictNonces ==
    probe.fn = "HibachiSDK.sendBatchOrder" => StrictlyIncreasing(probe.out.orders)

\* the caller has given every order of the batch a nonce of its own
SuppliesNonces(orders) ==
    /\ \A k \in 1..Len(orders) : orders[k].nonce # null
    /\ \A k, l \in 1..Len(orders) : k # l => orders[k].nonce # orders[l].nonce

\* C17: sendBatchOrder assigns nonces only when the caller has not supplied
\* distinct ones: supplied distinct nonces are left unchanged and are the ones
\* signed; otherwise element i receives base + i, base being one timestamp
\* taken for the whole batch.
C17_NoncesAssignedOnlyIfMissing ==
    \A i \in 1..Len(calls) :
        calls[i].op = "sendBatchOrder" =>
            \A k \in 1..Len(calls[i].orders) :
                IF SuppliesNonces(calls[i].args)
                THEN calls[i].orders[k].order.nonce = calls[i].args[k].nonce
                ELSE calls[i].orders[k].order.nonce =
                        Integer(1, AddDigits(calls[i].orders[1].order.nonce.c,
                                             NatDigits(k - 1), 0, 10))

\* the digest the single-instruction operation signs for the same instruction:
\* createOrder for place, editOrder for modify, cxlOrder for cancel
SingleDigest(order, nonce) ==
    IF order.action = "place"
    THEN createOrderBuffer([ nonce |-> nonce, quantity |-> order.quantity,
                             side |-> SideOf(order), price |-> order.price,
                             maxFeesPercent |-> order.maxFeesPercent ],
                           order.contractId, order.underlyingDecimals)
    ELSE IF order.action = "modify"
    THEN editOrderBuffer(nonce, [side |-> SideOf(order)], order.updatedQuantity,
                         order.updatedPrice, order.maxFeesPercent, order.contractId,
                         order.underlyingDecimals)
    ELSE serializeOrderId(order.orderId)

\* C18: for every batch element, the digest sendBatchOrder signs is the digest
\* the corresponding single operation signs for the same nonce, contractId,
\* side, quantity, price, maxFeesPercent and underlyingDecimals.
C18_BatchDigestAsSingle ==
    \A i \in 1..Len(calls) :
        calls[i].op = "sendBatchOrder" =>
            \A k \in 1..Len(calls[i].orders) :
                calls[i].orders[k].digest =
                    SingleDigest(calls[i].args[k], calls[i].orders[k].order.nonce)

\* some order of the batch has an action other than place, modify, cancel
HasUnknownAction(orders) == \E k \in 1..Len(orders) : orders[k].action \notin BatchActions

\* no batch with an order of unknown action has been transmitted
NoUnknownActionSent ==
    \A j \in 1..Len(wire) :
        (wire[j].method = "POST" /\ wire[j].url = "/trade/orders")
            => ~HasUnknownAction(wire[j].data.orders)

\* C19 (as claimed): when an order of the batch given to sendBatchOrder has an
\* action other than place, modify or cancel, the call fails with the
\* unsupported-action error and no batch request is transmitted.
C19_UnsupportedAction ==
    /\ NoUnknownActionSent
    /\ \A i \in 1..Len(calls) :
          (calls[i].op = "sendBatchOrder" /\ HasUnknownAction(calls[i].args))
              => calls[i].pc = "threw" /\ calls[i].error = "Unknown action type"

\* C19 (amended): such a call fails and transmits no batch request.  The
\* orders are handled in turn, so the error is "Unknown action type" when the
\* loop reaches the unknown action, that is whenever the configured keys match
\* or no signed order precedes it; with differing keys an earlier place,
\* modify or cancel order fails first with "Public key mismatches.".
C19_UnknownActionFails ==
    /\ NoUnknownActionSent
    /\ \A i \in 1..Len(calls) :
          (calls[i].op = "sendBatchOrder" /\ HasUnknownAction(calls[i].args))
              => /\ calls[i].pc = "threw"
                 /\ IF KeysMatch \/ calls[i].args[1].action \notin BatchActions
                    THEN calls[i].error = "Unknown action type"
                    ELSE calls[i].error = "Public key mismatches."

\* with matching keys, a batch has failed at its second order, of unknown
\* action, after it had signed the first; nothing was sent
C19_Witness ==
    /\ KeysMatch
    /\ wire = <<>>
    /\ \E i \in 1..Len(calls) :
          /\ calls[i].op = "sendBatchOrder"
          /\ HasUnknownAction(calls[i].args)
          /\ Len(calls[i].orders) = 1
          /\ calls[i].error = "Unknown action type"

\* the batch of the HMAC class fails in the same way: it has no signing step
\* that could fail before
Hmac_UnknownActionFails ==
    (probe.fn = "HibachiSDK.sendBatchOrder" /\ HasUnknownAction(probe.args.orders))
        => probe.out.threw = "Unknown action type" /\ probe.out.posted = <<>>

\* C20: for the same instruction (nonce, contractId, side, quantity, price,
\* max fees, asset precision) the HMAC class and the ECDSA class sign the same
\* bytes.
C20_SameDigest ==
    probe.fn = "serializeOrderBoth" => probe.out.ecdsa = probe.out.hmac

(***************************************************************************)
(* Nonces across the calls of one instance.                                *)
(***************************************************************************)
\* a < b for two numbers that are not negative
Less(a, b) == CmpDigits(a.c, b.c) < 0

\* the nonces a call has assigned to the digests it has signed, in the order
\* in which it signed them
NoncesOf(call) ==
    IF call.op = "sendBatchOrder"
    THEN [k \in 1..Len(call.orders) |-> call.orders[k].order.nonce]
    ELSE IF call.op \in SigningOps /\ call.signature # EmptySignature
    THEN <<call.nonce>>
    ELSE <<>>

\* C21: the nonces the SDK assigns to the successive signed requests of one
\* account (createOrder, cxlOrder, cxlAllOrders, editOrder, withdraw, transfer
\* and every element of sendBatchOrder, in any order of calls) are pairwise
\* distinct and strictly increasing.
C21_NoncesIncrease ==
    /\ \A i \in 1..Len(calls) :
          \A k, l \in 1..Len(NoncesOf(calls[i])) :
              k < l => Less(NoncesOf(calls[i])[k], NoncesOf(calls[i])[l])
    /\ \A i, j \in 1..Len(calls) :
          i < j => \A k \in 1..Len(NoncesOf(calls[i])), l \in 1..Len(NoncesOf(calls[j])) :
                       Less(NoncesOf(calls[i])[k], NoncesOf(calls[j])[l])

(***************************************************************************)
(* The fields of the instance.                                             *)
(***************************************************************************)
\* the step is a step of a signing operation: a call of one begins, or a
\* transfer goes on from its key request
SigningStep ==
    \/ /\ Len(calls') = Len(calls) + 1
       /\ calls'[Len(calls')].op \in SigningOps
    \/ \E i \in 1..Len(calls) :
          calls[i].pc = "awaitingKey" /\ calls'[i].pc \in {"awaiting", "threw"}
                                      /\ calls'[i].error # "request failed"

\* C22: a signing operation leaves every field of the SDK instance unchanged
\* except the last-signature field: after createOrder, cxlOrder, cxlAllOrders,
\* editOrder, withdraw, transfer or sendBatchOrder, no other instance field
\* differs from its value before the call.
C22_OnlyLastSignature ==
    [][SigningStep => \A f \in DOMAIN sdk \ {"lastSignature"} : sdk'[f] = sdk[f]]_vars

(***************************************************************************)
(* The digests of the calls.                                               *)
(***************************************************************************)
\* the fields of an order of a batch that the caller has chosen
InstructionOf(order) == [k \in DOMAIN order \ {"nonce", "signature"} |-> order[k]]

\* the digests a call has computed, each with the instruction and the nonce
\* it was computed for
DigestsOf(call) ==
    IF call.op = "sendBatchOrder"
    THEN { [ op |-> "sendBatchOrder", instruction |-> InstructionOf(call.args[k]),
             nonce |-> call.orders[k].order.nonce, digest |-> call.orders[k].digest ] :
           k \in 1..Len(call.orders) }
    ELSE IF call.op = "createOrder"
    THEN { [ op |-> "createOrder",
             instruction |-> [ order |-> InstructionOf(call.value),
                               contractId |-> call.contractId,
                               underlyingDecimals |-> call.underlyingDecimals ],
             nonce |-> call.nonce, digest |-> call.digest ] }
    ELSE IF call.op = "transfer"
    THEN IF call.digest = <<>> THEN {}
         ELSE { [ op |-> "transfer",
                  instruction |-> [ assetId |-> call.assetId, quantity |-> call.quantity,
                                    maxFees |-> call.maxFees,
                                    dstPublicKey |-> call.dstPublicKey ],
                  nonce |-> call.nonce, digest |-> call.digest ] }
    ELSE IF call.op \in SigningOps
    THEN { [ op |-> call.op, instruction |-> call.args, nonce |-> call.nonce,
             digest |-> call.digest ] }
    ELSE {}

SameInstruction(a, b) ==
    /\ a.op = b.op
    /\ DOMAIN a.instruction = DOMAIN b.instruction
    /\ a.instruction = b.instruction

SignerOf(request) ==
    IF request.url = "/trade/order"
    THEN (IF request.method = "POST" THEN "createOrder"
          ELSE IF request.method = "PUT" THEN "editOrder" ELSE "cxlOrder")
    ELSE IF request.url = "/trade/orders"
    THEN (IF request.method = "POST" THEN "sendBatchOrder" ELSE "cxlAllOrders")
    ELSE IF request.url = "/capital/withdraw" THEN "withdraw"
    ELSE IF request.url = "/capital/transfer" THEN "transfer"
    ELSE "none"

\* the digest begins with the nonce in 8 bytes
BeginsWithNonce(digest, nonce) ==
    Len(digest) >= 8 /\ SubSeq(digest, 1, 8) = toBytes(nonce, 8)

\* the operations whose digest has a nonce field
NonceInDigest == {"createOrder", "cxlAllOrders", "editOrder", "transfer"}

\* the body of the request has the signature that the call has computed over
\* its own digest, and the nonce of that call
SignedBy(data, call) ==
    /\ data.signature = call.signature
    /\ data.signature.msgHash = sha256(call.digest)
    /\ "nonce" \in DOMAIN data => data.nonce = call.nonce
    /\ call.op \in NonceInDigest => BeginsWithNonce(call.digest, call.nonce)

\* the order of a batch request is one that the call has signed
SignedInBatch(order, call) ==
    \E k \in 1..Len(call.orders) :
        /\ order = call.orders[k].order
        /\ order.signature.msgHash = sha256(call.orders[k].digest)
        /\ order.action # "cancel" => BeginsWithNonce(call.orders[k].digest, order.nonce)

\* C24: when several asynchronous operations on one SDK instance overlap
\* (withdraw or transfer started without awaiting, followed by other calls),
\* every request that is transmitted carries the signature computed over its
\* own digest with its own nonce, for every interleaving of the awaits.
C24_OwnSignature ==
    \A j \in 1..Len(wire) :
        IF SignerOf(wire[j]) = "none" THEN TRUE
        ELSE IF SignerOf(wire[j]) = "sendBatchOrder"
        THEN \E i \in 1..Len(calls) :
                /\ calls[i].op = "sendBatchOrder"
                /\ Len(wire[j].data.orders) = Len(calls[i].args)
                /\ \A k \in 1..Len(wire[j].data.orders) :
                      SignedInBatch(wire[j].data.orders[k], calls[i])
        ELSE \E i \in 1..Len(calls) :
                /\ calls[i].op = SignerOf(wire[j])
                /\ SignedBy(wire[j].data, calls[i])

\* a transfer has asked for the key, another operation has signed and sent its
\* request at a later clock reading, and then the transfer has gone on and
\* sent its own request
C24_Witness ==
    \E a, b, c \in 1..Len(wire) :
        /\ a < b /\ b < c
        /\ wire[a].url = "/capital/transfer-info"
        /\ SignerOf(wire[b]) \in {"withdraw", "cxlOrder", "editOrder", "cxlAllOrders"}
        /\ wire[c].url = "/capital/transfer"
        /\ sdk.lastNonce # wire[c].data.nonce

(***************************************************************************)
(* Digests without a nonce.                                                *)
(***************************************************************************)
\* the digest is the asset id, the scaled quantity, the scaled max fees and
\* the bytes of the address as withdraw has cut it, and nothing else
WithdrawFieldsOnly(digest, args) ==
    /\ Len(digest) = 20 + Len(BufferFromHex(slice2(args.withdrawAddress)))
    /\ SubSeq(digest, 1, 4) = BigEndian(NumOfNat(args.assetId), 4)
    /\ SubSeq(digest, 5, 12) =
          BigEndian(quantityWithDecimal(args.decimal, args.quantity), 8)
    /\ SubSeq(digest, 13, 20) =
          BigEndian(quantityWithDecimal(args.decimal, args.maxFees), 8)
    /\ SubSeq(digest, 21, Len(digest)) = BufferFromHex(slice2(args.withdrawAddress))

NoNonceOps == {"cxlOrder", "withdraw"}

\* C25: the cancel-by-id digest is exactly the 8-byte big-endian order id and
\* the withdraw digest contains no nonce, so two cancel or two withdraw
\* requests with equal parameters issued at different times sign the same
\* digest.
C25_NoNonceInDigest ==
    /\ \A i \in 1..Len(calls) :
          /\ calls[i].op = "cxlOrder" =>
                /\ Len(calls[i].digest) = 8
                /\ calls[i].digest = BigEndian(BigNumber(calls[i].args.orderId), 8)
          /\ calls[i].op = "withdraw" => WithdrawFieldsOnly(calls[i].digest, calls[i].args)
    /\ \A i, j \in 1..Len(calls) :
          (/\ calls[i].op \in NoNonceOps
           /\ calls[j].op = calls[i].op
           /\ calls[j].args = calls[i].args)
              => /\ calls[i].digest = calls[j].digest
                 /\ calls[i].signature.msgHash = calls[j].signature.msgHash

\* two withdrawals with the same parameters have been signed and sent at
\* different clock readings: the two requests are the same
C25_Witness ==
    \E i, j \in 1..Len(calls) :
        /\ calls[i].op = "withdraw" /\ calls[j].op = "withdraw"
        /\ calls[i].args = calls[j].args
        /\ calls[i].nonce # calls[j].nonce
        /\ calls[i].signature # EmptySignature
        /\ calls[j].signature = calls[i].signature
        /\ Len(wire) = 2 /\ wire[1] = wire[2]

(***************************************************************************)
(* The last* fields of the instance.                                       *)
(***************************************************************************)
\* no operation is under way
AllCompleted == \A i \in 1..Len(calls) : calls[i].pc \in {"returned", "threw"}

\* the operations that assign lastOrderBuffer
BufferOps == {"createOrder", "cxlAllOrders", "editOrder", "withdraw"}

\* lastOrderBuffer is no longer null
BufferWritten == \E i \in 1..Len(calls) : calls[i].op \in BufferOps

\* the three fields are those of one operation: the signature is the one the
\* call has made over its digest, the buffer is that digest in hex and the
\* nonce is the one the call has taken
LastOf(call) ==
    /\ call.op \in SigningOps
    /\ call.signature # EmptySignature
    /\ sdk.lastSignature = call.signature
    /\ sdk.lastSignature.msgHash = sha256(call.digest)
    /\ BufferWritten
    /\ sdk.lastOrderBuffer = BufferToHex(call.digest)
    /\ sdk.lastNonce = call.nonce

\* an operation has signed or has taken a nonce
SomeSigningCall == \E i \in 1..Len(calls) : calls[i].op \in SigningOps

\* C26: after any sequence of completed operations on one SDK instance,
\* lastNonce, lastOrderBuffer and lastSignature all belong to the same
\* operation: lastSignature is the signature over the digest recorded in
\* lastOrderBuffer, built with the nonce recorded in lastNonce.
C26_LastFieldsOfOneCall ==
    (AllCompleted /\ SomeSigningCall /\ sdk.lastSignature # null)
        => \E i \in 1..Len(calls) : LastOf(calls[i])

(***************************************************************************)
(* The caller's order objects.                                             *)
(***************************************************************************)
\* call j has been given the array that call i was given before
Resubmitted(i, j) ==
    /\ i < j
    /\ calls[i].op = "sendBatchOrder"
    /\ calls[j].op = "sendBatchOrder"
    /\ calls[j].args = calls[i].after

\* the 4 bytes of the side field of an order digest
SideField(digest) == SubSeq(digest, 21, 24)

\* a digest without its nonce field
AfterNonce(digest) == SubSeq(digest, 9, Len(digest))

\* C27: submitting the same orders array to sendBatchOrder twice signs, for
\* every modify element, digests that agree in every field except the nonce;
\* in particular the side field encoded the second time equals the side the
\* caller put in.
C27_SameDigestAgain ==
    \A i, j \in 1..Len(calls) :
        Resubmitted(i, j) =>
            \A k \in 1..Len(calls[j].orders) :
                (k <= Len(calls[i].orders) /\ calls[i].args[k].action = "modify")
                    => /\ AfterNonce(calls[j].orders[k].digest) =
                              AfterNonce(calls[i].orders[k].digest)
                       /\ SideField(calls[j].orders[k].digest) =
                              <<0, 0, 0, IF calls[i].args[k].side = "ASK" THEN 0 ELSE 1>>

(***************************************************************************)
(* The side field.                                                         *)
(***************************************************************************)
\* C28: the 4-byte side field of an order digest is 0 exactly when the side is
\* ASK and 1 exactly when the side is BID; an order whose side is missing or
\* has any other value is never encoded as a BID.
C28_SideField ==
    probe.fn = "serializeOrderSide" =>
        /\ SideField(probe.out) = <<0, 0, 0, 0>> <=> probe.args.side = "ASK"
        /\ SideField(probe.out) = <<0, 0, 0, 1>> <=> probe.args.side = "BID"

\* the batch has failed inside its loop: at an order of unknown action or at
\* a signing step
FailedInLoop(call) ==
    /\ call.op = "sendBatchOrder"
    /\ call.pc = "threw"
    /\ call.error # "request failed"

\* C29: when sendBatchOrder fails (unknown action or signing error at element
\* k), the caller's order objects are unchanged: no element has had its nonce
\* or signature set or its side deleted.
C29_OrdersUntouched ==
    \A i \in 1..Len(calls) : FailedInLoop(calls[i]) => calls[i].after = calls[i].args

(***************************************************************************)
(* The order of the requests.                                              *)
(***************************************************************************)
\* the nonces in the body of a request, in the order of the body
NoncesIn(request) ==
    IF SignerOf(request) = "none" THEN <<>>
    ELSE IF "orders" \in DOMAIN request.data
    THEN [k \in 1..Len(request.data.orders) |-> request.data.orders[k].nonce]
    ELSE IF "nonce" \in DOMAIN request.data THEN <<request.data.nonce>>
    ELSE <<>>

\* C30: requests of one SDK instance reach the exchange in increasing nonce
\* order: when two nonce-bearing operations overlap (two transfer calls, say),
\* the one with the smaller nonce is transmitted first.
C30_SentInNonceOrder ==
    \A a, b \in 1..Len(wire) :
        a < b => \A k \in 1..Len(NoncesIn(wire[a])), l \in 1..Len(NoncesIn(wire[b])) :
                     ~Less(NoncesIn(wire[b])[l], NoncesIn(wire[a])[k])

====
